---- MODULE Spec2Model ----
(***************************************************************************)
(* The CSMA/CA link layer of rathernet (src/racsma/socket.rs): the socket  *)
(* daemon's receive / timer / enqueue loop, the writer and reader handles, *)
(* and the acoustic medium that connects the sockets.                      *)
(***************************************************************************)
EXTENDS Integers, Sequences, FiniteSets, TLC

(***************************************************************************)
(* Bounds of the model.                                                    *)
(***************************************************************************)
MaxBits == 3
MaxCalls == 2
MaxAir == 1
MaxRx == 1
MaxRetry == 1
MaxTx == 12
TxWatch == 1
\* Program constants, scaled down to keep the state space small.
PAYLOAD_BITS_LEN == 2
SEQ_BITS_LEN == 2
SOCKET_JAR_CAPACITY == 2
ChecksumMod == 2
SOCKET_MAX_RANGE == 2
WORD_BITS == 3
symbol_len == 2
WARMUP_LEN == 1
PREAMBLE_LEN == 2
LENGTH_LEN == 2
MaxChunk == 2
MaxTracks == 1
MaxCmds == 2
MaxWrite == 7
MaxSeqBits == 5

(***************************************************************************)
(* Program constants.                                                      *)
(***************************************************************************)
SOCKET_MAX_RESENDS == 10
SOCKET_BROADCAST_ADDRESS == 0
PING_SEQ == 0
SOCKET_SLOT_TIMEOUT == 100

Addr == {1, 2}
Dest == Addr \cup {SOCKET_BROADCAST_ADDRESS}
Bit == {0, 1}
SeqSpace == 0 .. (2 ^ SEQ_BITS_LEN - 1)

Min(a, b) == IF a < b THEN a ELSE b

BitVecs == UNION {[1 .. k -> Bit] : k \in 0 .. MaxBits}

\* The bit vectors the write calls of Spec send: 1, 0, 1, ... of every length
WriteBits == {[i \in 1 .. k |-> i % 2] : k \in 0 .. MaxBits}

\* Number of chunks bits.chunks(PAYLOAD_BITS_LEN) yields
chunks_len(bits) == (Len(bits) + PAYLOAD_BITS_LEN - 1) \div PAYLOAD_BITS_LEN

MaxFrames == (MaxBits + PAYLOAD_BITS_LEN - 1) \div PAYLOAD_BITS_LEN
TaskIds == 1 .. (MaxCalls * MaxFrames)

(***************************************************************************)
(* MAC frames.  gid is a ghost tag: the id of the write task the frame     *)
(* belongs to (0 for responses).                                           *)
(***************************************************************************)
NonAckTypes == {"Data", "MacPingReq"}
AckTypes == {"Ack", "MacPingResp"}

DataFrame_new(dest, src, seq, flag, payload, gid) ==
    [dest |-> dest, src |-> src, seq |-> seq, flag |-> flag, payload |-> payload, gid |-> gid,
     type |-> "Data"]

AckFrame_new(dest, src, seq) ==
    [dest |-> dest, src |-> src, seq |-> seq, flag |-> 0, payload |-> <<>>, gid |-> 0,
     type |-> "Ack"]

MacPingReqFrame_new(dest, src, gid) ==
    [dest |-> dest, src |-> src, seq |-> PING_SEQ, flag |-> 0, payload |-> <<>>, gid |-> gid,
     type |-> "MacPingReq"]

MacPingRespFrame_new(dest, src) ==
    [dest |-> dest, src |-> src, seq |-> PING_SEQ, flag |-> 0, payload |-> <<>>, gid |-> 0,
     type |-> "MacPingResp"]

RECURSIVE SumBits(_)
SumBits(p) == IF p = <<>> THEN 0 ELSE Head(p) + SumBits(Tail(p))

TypeCode(t) ==
    CASE t = "Data" -> 0 [] t = "Ack" -> 1 [] t = "MacPingReq" -> 2 [] OTHER -> 3

\* Checksum over the header fields and the payload
Checksum(f) ==
    (TypeCode(f.type) + f.flag + f.dest + f.src + f.seq + Len(f.payload)
        + SumBits(f.payload)) % ChecksumMod

\* Into<BitVec>: the frame followed by its checksum
ToBits(f) == [frame |-> f, checksum |-> Checksum(f)]

\* What the channel can do to a transmitted bit vector: flip the checksum
Garble(b) == [b EXCEPT !.checksum = (b.checksum + 1) % ChecksumMod]

\* AcsmaFrame::try_from: Ok iff the checksum matches
try_from_ok(b) == b.checksum = Checksum(b.frame)

\* NonAckFrame::corresponds: Data <-> Ack, MacPingReq <-> MacPingResp
corresponds(f, header) ==
    \/ f.type = "Data" /\ header.type = "Ack"
    \/ f.type = "MacPingReq" /\ header.type = "MacPingResp"

(***************************************************************************)
(* Pure functions of socket.rs.                                            *)
(***************************************************************************)
\* An address filter that takes every broadcast frame, the socket's own included
is_for_self_any_broadcast(self, header) ==
    header.dest = self \/ header.dest = SOCKET_BROADCAST_ADDRESS

is_for_self(self, header) ==
    LET is_dest == header.dest = self
        is_broadcast == header.dest = SOCKET_BROADCAST_ADDRESS /\ header.src # self
    IN is_dest \/ is_broadcast

\* A response that goes back to the frame's destination
create_resp_swapped(header) ==
    IF header.type = "Data"
    THEN ToBits(AckFrame_new(header.dest, header.src, header.seq))
    ELSE ToBits(MacPingRespFrame_new(header.dest, header.src))

create_resp(header) ==
    IF header.type = "Data"
    THEN ToBits(AckFrame_new(header.src, header.dest, header.seq))
    ELSE ToBits(MacPingRespFrame_new(header.src, header.dest))

NoTask == [frame |-> AckFrame_new(0, 0, 0), id |-> 0]
NoTimer ==
    [kind |-> "None", has |-> FALSE, task |-> NoTask, resends |-> 0, retry |-> 0, dur |-> 0]

\* A Timeout that counts its own transmission as a resend
AcsmaSocketWriteTimer_timeout_resent(task, resends) ==
    [kind |-> "Timeout", has |-> TRUE, task |-> task, resends |-> resends + 1, retry |-> 0,
     dur |-> 0]

AcsmaSocketWriteTimer_timeout(task, resends) ==
    [kind |-> "Timeout", has |-> TRUE, task |-> task, resends |-> resends, retry |-> 0,
     dur |-> 0]

\* backoff(Some(task), ..) builds the inner with resends: 0; backoff(None, ..) has no inner
AcsmaSocketWriteTimer_backoff(has, task, retry, duration) ==
    [kind |-> "Backoff", has |-> has, task |-> IF has THEN task ELSE NoTask,
     resends |-> 0, retry |-> retry, dur |-> duration]

\* 1 << factor on a word of WORD_BITS bits, where the build does not trap the
\* overflow: the shift count is taken modulo the width
shl(factor) == 2 ^ (factor % WORD_BITS)

\* 1 << factor where the build traps the overflow: does it panic?
shl_overflows(factor) == factor >= WORD_BITS

\* A range that is not held below SOCKET_MAX_RANGE
backoff_range_unclamped(factor) == shl(factor)

\* generate_backoff: the range k is drawn from
backoff_range(factor) ==
    IF shl(factor) > SOCKET_MAX_RANGE THEN SOCKET_MAX_RANGE ELSE shl(factor)

\* generate_backoff: the durations it can return when the rng yields at most `draws`
generate_backoff(factor, draws) ==
    {k * SOCKET_SLOT_TIMEOUT : k \in 0 .. Min(backoff_range(factor), draws)}

\* A back-off that lets go of the task
create_backoff_no_task(task, retry, duration) ==
    AcsmaSocketWriteTimer_backoff(FALSE, task, retry, duration)

create_backoff(task, retry, duration) ==
    AcsmaSocketWriteTimer_backoff(TRUE, task, retry, duration)

\* The frame of index `index` (0-based) of encode_packet(bits, src, dest) with base `base`
encode_frame(bits, src, dest, base, index, gid) ==
    LET len == chunks_len(bits)
        lo == index * PAYLOAD_BITS_LEN + 1
        hi == Min((index + 1) * PAYLOAD_BITS_LEN, Len(bits))
        flag == IF index = len - 1 THEN 1 ELSE 0
    IN DataFrame_new(dest, src, base + index, flag, SubSeq(bits, lo, hi), gid)

encode_packet(bits, src, dest, base, first) ==
    [i \in 1 .. chunks_len(bits) |->
        encode_frame(bits, src, dest, base, i - 1, first + i - 1)]

\* The bases rng.gen_range(0..((1 << SEQ_BITS_LEN) - bits.len())) can draw
encode_bases(bits) == 0 .. (2 ^ SEQ_BITS_LEN - Len(bits) - 1)


\* A jar that is never found to hold a seq
jar_contains_never(jar, seq) == FALSE

\* AllocRingBuffer: contains, and push that overwrites the oldest entry when full
jar_contains(jar, seq) == \E i \in 1 .. Len(jar) : jar[i] = seq

\* A ring buffer that is one entry short of SOCKET_JAR_CAPACITY
jar_push_short(jar, seq) ==
    IF Len(jar) >= SOCKET_JAR_CAPACITY - 1 THEN Append(Tail(jar), seq) ELSE Append(jar, seq)

jar_push(jar, seq) ==
    IF Len(jar) >= SOCKET_JAR_CAPACITY THEN Append(Tail(jar), seq) ELSE Append(jar, seq)

\* A match that is found for a task in a Timeout only
clear_matches_timeout_only(header, timer) ==
    /\ timer.kind = "Timeout"
    /\ corresponds(timer.task.frame, header)
    /\ timer.task.frame.seq = header.seq

\* clear_timer: does the Ack / MacPingResp header answer the timer's pending task?
clear_matches(header, timer) ==
    /\ timer.has
    /\ corresponds(timer.task.frame, header)
    /\ timer.task.frame.seq = header.seq

\* A clear_timer that signals the task and keeps it in the timer
clear_timer_keep(header, timer, duration) == timer

\* A clear_timer that leaves no timer behind
clear_timer_none(header, timer, duration) ==
    IF clear_matches(header, timer) THEN NoTimer ELSE timer

\* clear_timer: the timer it returns
clear_timer(header, timer, duration) ==
    IF clear_matches(header, timer)
    THEN AcsmaSocketWriteTimer_backoff(FALSE, NoTask, 0, duration)
    ELSE timer


(***************************************************************************)
(* The ather modem.  A sample is named after the waveform it belongs to:   *)
(* "w" warmup, "p" preamble, "s0" and "s1" the two symbols.                 *)
(***************************************************************************)
preamble_len == PREAMBLE_LEN * symbol_len

PAYLOAD_LEN == 2 ^ LENGTH_LEN - 1

Rep(x, n) == [i \in 1 .. n |-> x]

\* impl AtherEncoding for BitSlice: one symbol per bit
RECURSIVE encode_bits(_)
encode_bits(bits) ==
    IF bits = <<>> THEN <<>>
    ELSE Rep(IF Head(bits) = 1 THEN "s1" ELSE "s0", symbol_len) \o encode_bits(Tail(bits))

\* The bits of a usize, least significant first
view_bits(n) == [i \in 1 .. WORD_BITS |-> (n \div 2 ^ (i - 1)) % 2]

\* impl AtherEncoding for usize: one symbol per bit of the machine word
encode_usize(n) == encode_bits(view_bits(n))

\* A length field cut after the first symbol
length_field_short(n) == encode_bits(SubSeq(view_bits(n), 1, 1))

\* chunk.len().encode(symbols)[..LENGTH_LEN]
length_field(n) == encode_bits(SubSeq(view_bits(n), 1, LENGTH_LEN))

create_warmup == Rep("w", WARMUP_LEN * symbol_len) \o encode_usize(0)

\* Frame::new(.., Header::new(preamble, length), Body::new(payload)) as samples
audio_frame(chunk) == Rep("p", preamble_len) \o length_field(Len(chunk)) \o encode_bits(chunk)

\* bits.chunks(PAYLOAD_LEN)
RECURSIVE chunks(_)
chunks(bits) ==
    IF bits = <<>> THEN <<>>
    ELSE IF Len(bits) <= PAYLOAD_LEN THEN <<bits>>
    ELSE <<SubSeq(bits, 1, PAYLOAD_LEN)>> \o chunks(SubSeq(bits, PAYLOAD_LEN + 1, Len(bits)))

\* stream.rs encode_packet: the audio frames of a bit vector
ather_encode_packet(bits) ==
    [i \in 1 .. Len(chunks(bits)) |-> audio_frame(chunks(bits)[i])]
    \o (IF Len(bits) % PAYLOAD_LEN = 0 THEN <<audio_frame(<<>>)>> ELSE <<>>)

RECURSIVE concat(_)
concat(frames) == IF frames = <<>> THEN <<>> ELSE Head(frames) \o concat(Tail(frames))

\* AtherOutputStream::write(bits): the samples of the track it plays
AtherOutputStream_write(bits) == concat(<<create_warmup>> \o ather_encode_packet(bits))

\* signal::synchronize on a noiseless buffer: where the first whole preamble starts,
\* and whether the correlation peak there exceeds CORR_THRESHOLD
synchronize(buf) ==
    LET starts == {i \in 0 .. (Len(buf) - preamble_len) :
                        \A j \in 1 .. preamble_len : buf[i + j] = "p"}
    IN IF starts = {} THEN [index |-> 0, peak |-> FALSE]
       ELSE [index |-> CHOOSE i \in starts : \A k \in starts : i <= k, peak |-> TRUE]

\* signal::dot_product(symbol 0, buf[..symbol_len]) > 0 on a noiseless buffer
dot_product_positive(buf) == \A j \in 1 .. symbol_len : buf[j] = "s0"

\* buf.split_off(at)
split_off(buf, at) == SubSeq(buf, at + 1, Len(buf))

\* A decoder that takes a symbol as soon as all its samples are buffered
has_symbol_eager(buf) == Len(buf) >= symbol_len

\* The guard of the length and payload loops of decode_packet
has_symbol(buf) == Len(buf) > symbol_len

\* decode_packet between two awaits.  dec is its position: the loop it is in, its
\* index, and the length and bits decoded so far.  The result is the position and
\* buffer at the next stream.next().await, or the bits it returns
StartDecode == [bits |-> <<>>, index |-> 0, phase |-> "preamble", length |-> 0, done |-> FALSE]

RECURSIVE decode_run(_, _)
decode_run(dec, buf) ==
    IF dec.phase = "preamble"
    THEN LET sync == synchronize(buf)
         IN IF Len(buf) >= preamble_len /\ sync.index >= 0 /\ sync.peak
               /\ sync.index + preamble_len < Len(buf)
            THEN decode_run([dec EXCEPT !.phase = "length"],
                            split_off(buf, sync.index + preamble_len))
            ELSE [dec |-> dec, buf |-> buf]
    ELSE IF dec.phase = "length"
    THEN IF dec.index >= LENGTH_LEN
         THEN decode_run([dec EXCEPT !.phase = "payload", !.index = 0], buf)
         ELSE IF has_symbol(buf)
         THEN decode_run([dec EXCEPT !.index = dec.index + 1,
                                     !.length = IF dot_product_positive(buf) THEN dec.length
                                                ELSE dec.length + 2 ^ dec.index],
                         split_off(buf, symbol_len))
         ELSE [dec |-> dec, buf |-> buf]
    ELSE IF dec.index >= dec.length
         THEN [dec |-> [dec EXCEPT !.done = TRUE], buf |-> buf]
         ELSE IF has_symbol(buf)
         THEN decode_run([dec EXCEPT !.index = dec.index + 1,
                                     !.bits = Append(dec.bits,
                                                IF dot_product_positive(buf) THEN 0 ELSE 1)],
                         split_off(buf, symbol_len))
         ELSE [dec |-> dec, buf |-> buf]

(***************************************************************************)
(* State.                                                                  *)
(***************************************************************************)
VARIABLES
    write_state,  \* per socket: Option<AcsmaSocketWriteTimer>
    read_jar,     \* per socket: the dedup ring buffer, oldest first
    write_rx,     \* per socket: the write-task queue
    read_rx,      \* per socket: the reader channel
    air,          \* per socket: bit vectors decoded by its ather input stream, not yet received
    completion,   \* per task id: what its completion channel carries
    wr,           \* per call: the state of a write(dest, bits) call
    rd,           \* per socket: the state of a read(src) call
    tx,           \* ghost, per task id: transmissions of its frame by write_bits
    fwd,          \* ghost, per task id: times its frame was sent to a reader channel
    enq,          \* ghost, per socket: task ids in the order they were enqueued
    deq,          \* ghost, per socket: task ids in the order they were dequeued
    seen,         \* ghost, per socket and seq: what was forwarded since the last Data frame
                  \* with that seq was (see seen_update)
    life,         \* per socket: the daemon task (running, exited, panicked), whether the
                  \* writer and reader handles exist, the audio sample source of its
                  \* decoder (open, closed), and the build's overflow checks
    ather,        \* one ather input stream: its task state, command channel, decode
                  \* task, sample buffer and sample source
    app           \* the ping and perf calls of one socket

vars == <<write_state, read_jar, write_rx, read_rx, air, completion, wr, rd,
          tx, fwd, enq, deq, seen, life, ather, app>>

Calls == 1 .. MaxCalls
Pending == [n |-> 0, st |-> "pending"]
Nothing == [frame |-> NoTask.frame, checksum |-> ChecksumMod]

\* seen[s][q]: no Data frame with seq q was forwarded yet
Unseen == [fwd |-> FALSE, news |-> 0, dup |-> FALSE]

\* The oneshot sender was dropped without a send: rx.await yields RecvError
Dropped == [n |-> 0, st |-> "Dropped"]

Alive(build) ==
    [build |-> build, daemon |-> "running", writer |-> TRUE, reader |-> TRUE,
     source |-> "open"]

IdleCall == [bits |-> <<>>, dest |-> 0, base |-> 0, st |-> "idle", sock |-> 0, idx |-> 0]
IdleRead == [src |-> 0, st |-> "idle", bucket |-> <<>>, result |-> <<>>]

\* AtherInputStream::new: the task state is Pending, no command is queued, the
\* spawned task awaits a command, the buffer is empty.  woken: the waker stored
\* by the last poll was woken; polled, item: what the last poll_next returned;
\* sent: the bit vectors written to the loopback so far
IdleAther ==
    [task |-> [bits |-> <<>>, kind |-> "Pending", has |-> FALSE],
     buf |-> <<>>, dec |-> StartDecode, source |-> "open", cmds |-> <<>>,
     worker |-> "recv", track |-> <<>>, paused |-> FALSE,
     woken |-> FALSE, polled |-> "none", item |-> <<>>, sent |-> <<>>, got |-> <<>>]

\* No ping or perf call was made yet.  ping: n iterations begun, their reports in
\* order, and how many had begun when the peer went away (died, 0 while it is up).
\* perf: n frames sent by perf_daemon, the lengths queued on its channel to
\* perf_main (send_rx), whether perf_daemon still holds send_tx, whether it has
\* timed out, and what the call returned
IdleApp ==
    [ping |-> [dest |-> 0, n |-> 0, st |-> "idle", sock |-> 0, reports |-> <<>>, up |-> TRUE,
               died |-> 0],
     perf |-> [dest |-> 0, n |-> 0, st |-> "idle", sock |-> 0, result |-> "none",
               sender |-> "idle", send_rx |-> 0, send_tx |-> TRUE, timed_out |-> FALSE]]

Init ==
    /\ write_state = [s \in Addr |-> NoTimer]
    /\ read_jar = [s \in Addr |-> <<>>]
    /\ write_rx = [s \in Addr |-> <<>>]
    /\ read_rx = [s \in Addr |-> <<>>]
    /\ air = [s \in Addr |-> <<>>]
    /\ completion = [i \in TaskIds |-> Pending]
    /\ wr = [c \in Calls |-> IdleCall]
    /\ rd = [s \in Addr |-> IdleRead]
    /\ tx = [i \in TaskIds |-> 0]
    /\ fwd = [i \in TaskIds |-> 0]
    /\ enq = [s \in Addr |-> <<>>]
    /\ deq = [s \in Addr |-> <<>>]
    /\ seen = [s \in Addr |-> [q \in SeqSpace |-> Unseen]]
    /\ life = [s \in Addr |-> Alive("release")]
    /\ ather = IdleAther
    /\ app = IdleApp

(***************************************************************************)
(* The medium: a transmission reaches each socket's decoder intact, or     *)
(* garbled, or not at all.  A decoder holds at most MaxAir bit vectors.    *)
(***************************************************************************)
Outcome == {"lost", "ok", "bad"}

Deliver(a, b, d) ==
    [u \in Addr |->
        IF d[u] = "lost" \/ Len(a[u]) >= MaxAir THEN a[u]
        ELSE Append(a[u], IF d[u] = "ok" THEN b ELSE Garble(b))]

AllLost == [u \in Addr |-> "lost"]

\* Frames the decoder of socket `self` can hand to its daemon besides what the
\* sockets of Addr transmit: Data and pings of a station `peer` to this socket, to
\* everybody and to itself, echoes of the socket's own Data frames, and responses
HeardFrames(self, peer, seqs) ==
    {DataFrame_new(self, peer, seq, 1, <<1>>, 0) : seq \in seqs}
    \cup {DataFrame_new(dest, src, 0, 1, <<1>>, 0) :
            dest \in {SOCKET_BROADCAST_ADDRESS, peer}, src \in {self, peer}}
    \cup {AckFrame_new(self, peer, seq) : seq \in SeqSpace}
    \cup {AckFrame_new(dest, peer, 0) : dest \in {SOCKET_BROADCAST_ADDRESS, peer}}
    \cup {AckFrame_new(SOCKET_BROADCAST_ADDRESS, self, 0)}
    \cup {MacPingReqFrame_new(dest, peer, 0) : dest \in {self, peer}}
    \cup {MacPingRespFrame_new(dest, peer) : dest \in {self, peer}}

\* The same as bit vectors, and one that fails to decode
Heard(self, peer, seqs) ==
    {ToBits(f) : f \in HeardFrames(self, peer, seqs)}
    \cup {Garble(ToBits(DataFrame_new(self, peer, 0, 1, <<1>>, 0)))}

\* The environment of a run: which timers expire, what carrier sense reports, what
\* the medium does to a transmission, what else the decoder hears, the largest k the
\* rng draws for a back-off, how many busy senses in a row are followed (retries),
\* and how far the ghosts tx and seen resolve (cap, track).
\* Open: one socket among stations that can send it anything at any time
OpenEnv(self, peer) ==
    [draws |-> 0, track |-> FALSE, expiry |-> BOOLEAN, free |-> BOOLEAN,
     outs |-> {AllLost},
     noise |-> Heard(self, peer, {0}),
     cap |-> TxWatch, retries |-> MaxRetry]

\* Jar: the same, with Data frames of one seq more than the jar holds
JarEnv(self, peer) ==
    [draws |-> 0, track |-> TRUE, expiry |-> BOOLEAN, free |-> BOOLEAN,
     outs |-> {AllLost},
     noise |-> Heard(self, peer, 0 .. SOCKET_JAR_CAPACITY),
     cap |-> TxWatch, retries |-> MaxRetry]

\* Link: the sockets of Addr alone on the medium
LinkEnv(s) ==
    [draws |-> 0, track |-> FALSE, expiry |-> BOOLEAN, free |-> BOOLEAN,
     outs |-> {d \in [Addr -> Outcome] : d[s] # "bad"},
     noise |-> {},
     cap |-> TxWatch, retries |-> MaxRetry]

\* Silent: nobody answers, the channel is idle, every timer runs out
SilentEnv ==
    [draws |-> 0, track |-> FALSE, expiry |-> {TRUE}, free |-> {TRUE},
     outs |-> {AllLost},
     noise |-> {},
     cap |-> MaxTx, retries |-> MaxRetry]

Bump(n, cap) == IF n < cap THEN n + 1 ELSE n

\* Task id of frame i (1-based) of call c
TaskId(c, i) == (c - 1) * MaxFrames + i

(***************************************************************************)
(* socket_daemon.  One iteration of its loop takes the daemon's view of    *)
(* the state (World) through Step A and then Step B or Step C.  got, out   *)
(* and sensed record what the iteration received, wrote and sensed.        *)
(***************************************************************************)
World(s) ==
    [ws |-> write_state[s], jar |-> read_jar[s], rx |-> read_rx[s], wq |-> write_rx[s],
     dq |-> deq[s], sn |-> seen[s], air |-> air, comp |-> completion, fwd |-> fwd,
     tx |-> tx, life |-> life[s], got |-> Nothing, out |-> <<>>, sensed |-> <<>>]

\* The ghost seen[s] after a Data / MacPingReq frame with seq q was received and
\* was (forwarded) or was not sent to the reader.  For each seq r it keeps: fwd, a
\* Data frame with seq r was forwarded; news, the number of frames forwarded since
\* the last of them (up to SOCKET_JAR_CAPACITY); dup, a Data frame with seq r was
\* received and not forwarded since
seen_update(old, type, q, forwarded) ==
    [r \in SeqSpace |->
        IF r = q /\ type = "Data"
        THEN IF forwarded THEN [fwd |-> TRUE, news |-> 0, dup |-> FALSE]
             ELSE [old[r] EXCEPT !.dup = old[r].fwd]
        ELSE IF forwarded /\ old[r].fwd
        THEN [old[r] EXCEPT !.news = Bump(old[r].news, SOCKET_JAR_CAPACITY)]
        ELSE old[r]]

\* AcsmaFrame::NonAck: write the response, then consult the jar and forward
recv_non_ack(w, non_ack, d, track) ==
    LET header == non_ack
        resp == create_resp(header)
        dup == jar_contains(w.jar, header.seq)
        w1 == [w EXCEPT !.air = Deliver(w.air, resp, d),
                        !.out = Append(w.out, [step |-> "A", bits |-> resp]),
                        !.sn = IF track THEN seen_update(w.sn, header.type, header.seq, ~dup)
                              ELSE w.sn]
    IN IF dup THEN w1
       ELSE IF ~w.life.reader THEN [w1 EXCEPT !.jar = jar_push(w.jar, header.seq)]
       ELSE [w1 EXCEPT !.jar = jar_push(w.jar, header.seq),
                       !.rx = Append(w.rx, non_ack),
                       !.fwd = IF non_ack.gid \in TaskIds
                               THEN [w.fwd EXCEPT ![non_ack.gid] = Bump(w.fwd[non_ack.gid], 2)]
                               ELSE w.fwd]

\* Ack / MacPingResp: clear_timer on the current write timer, if there is one
recv_ack(w, header, draws) ==
    IF w.ws.kind = "None" THEN {w}
    ELSE {[w EXCEPT !.ws = clear_timer(header, w.ws, duration),
                    !.comp = IF clear_matches(header, w.ws)
                             THEN [w.comp EXCEPT ![w.ws.task.id] = [st |-> "Ok", n |-> 0]]
                             ELSE w.comp]
            : duration \in IF clear_matches(header, w.ws) THEN generate_backoff(0, draws)
                           ELSE {0}}

\* A Step A that takes every received vector for a frame
Receive_unchecked(s, w, bits, env) ==
    LET w0 == [w EXCEPT !.got = bits]
    IN IF ~is_for_self(s, bits.frame) THEN {w0}
       ELSE IF bits.frame.type \in NonAckTypes
       THEN {recv_non_ack(w0, bits.frame, d, env.track) : d \in env.outs}
       ELSE recv_ack(w0, bits.frame, env.draws)

\* Step A once read_ather.next() has yielded bits: the worlds it can leave
Receive(s, w, bits, env) ==
    LET w0 == [w EXCEPT !.got = bits]
    IN IF ~try_from_ok(bits) THEN {w0}
       ELSE IF ~is_for_self(s, bits.frame) THEN {w0}
       ELSE IF bits.frame.type \in NonAckTypes
       THEN IF ~jar_contains(w.jar, bits.frame.seq) /\ w.life.reader /\ Len(w.rx) >= MaxRx
            THEN {}
            ELSE {recv_non_ack(w0, bits.frame, d, env.track) : d \in env.outs}
       ELSE recv_ack(w0, bits.frame, env.draws)

\* Step A: the receive timeout elapses, or the decoder yields what is on the air
\* or what else the environment lets it hear.  With its sample source closed the
\* decoder yields only what it had decoded before; read_ather.next() stays pending
\* after that, and the timeout elapses
StepA(s, w, env) ==
    {w}
    \cup (IF w.air[s] = <<>> THEN {}
          ELSE Receive(s, [w EXCEPT !.air[s] = Tail(w.air[s])], Head(w.air[s]), env))
    \cup (IF w.life.source = "closed" THEN {}
          ELSE UNION {Receive(s, w, bits, env) : bits \in env.noise})

\* is_channel_free: the world after the daemon sensed the channel and found it `free`
is_channel_free(w, free) == [w EXCEPT !.sensed = Append(w.sensed, free)]

\* write_bits of a task's frame: always reports the frame as sent
write_bits(w, task, step, d, cap) ==
    [w EXCEPT !.air = Deliver(w.air, ToBits(task.frame), d),
              !.tx = [w.tx EXCEPT ![task.id] = Bump(w.tx[task.id], cap)],
              !.out = Append(w.out, [step |-> step, bits |-> ToBits(task.frame)])]

\* inner.link_error()
link_error(w, inner) ==
    [w EXCEPT !.comp = [w.comp EXCEPT ![inner.task.id] =
                            [st |-> "LinkError", n |-> inner.resends]],
              !.ws = NoTimer]

\* The daemon task panics: the timer's task, the queued tasks and the queue itself
\* are dropped, and so are their completion senders
panic(w, task) ==
    [w EXCEPT !.life.daemon = "panicked",
              !.ws = NoTimer,
              !.wq = <<>>,
              !.comp = [i \in TaskIds |->
                            IF i = task.id \/ (\E k \in 1 .. Len(w.wq) : w.wq[k].id = i)
                            THEN Dropped ELSE w.comp[i]]]

\* Some(create_backoff(&mut rng, task, retry)): the worlds it can leave
arm_backoff(w, task, retry, draws) ==
    IF w.life.build = "debug" /\ shl_overflows(retry) THEN {panic(w, task)}
    ELSE {[w EXCEPT !.ws = create_backoff(task, retry, duration)]
            : duration \in generate_backoff(retry, draws)}

\* Step B: the timer phase, taken when a write timer exists
StepB(s, w, env) ==
    LET timer == w.ws
        kept == IF FALSE \in env.expiry THEN {w} ELSE {}
        busy == IF FALSE \in env.free /\ timer.retry < env.retries
                THEN arm_backoff(is_channel_free(w, FALSE), timer.task, timer.retry + 1,
                                 env.draws)
                ELSE {}
        free == IF TRUE \notin env.free THEN {}
                ELSE IF timer.resends > SOCKET_MAX_RESENDS
                THEN {link_error(is_channel_free(w, TRUE), timer)}
                ELSE {[write_bits(is_channel_free(w, TRUE), timer.task, "B", d, env.cap)
                        EXCEPT !.ws =
                            AcsmaSocketWriteTimer_timeout(timer.task, timer.resends + 1)]
                        : d \in env.outs}
        expired == IF timer.kind = "Timeout"
                   THEN arm_backoff(w, timer.task, 0, env.draws)
                   ELSE IF timer.has THEN busy \cup free
                   ELSE {[w EXCEPT !.ws = NoTimer]}
    IN kept \cup (IF TRUE \in env.expiry THEN expired ELSE {})

\* A Step C that is also taken when the timer holds no task
may_dequeue_idle(timer) == timer.kind = "None" \/ ~timer.has

\* Is Step C taken in this iteration?
may_dequeue(timer) == timer.kind = "None"

\* The task write_rx.try_recv() returns from a non-empty queue
try_recv(queue) == Head(queue)

\* Step C: the enqueue phase, taken when no write timer exists.  With the queue
\* empty, try_recv reports Disconnected once the writer is gone, and the loop is
\* left if the reader is gone too
StepC(s, w, env) ==
    IF w.wq = <<>>
    THEN IF ~w.life.writer /\ ~w.life.reader
         THEN {[w EXCEPT !.life.daemon = "exited"]}
         ELSE {w}
    ELSE LET task == try_recv(w.wq)
             w1 == [w EXCEPT !.wq = SelectSeq(w.wq, LAMBDA t : t # task),
                             !.dq = Append(w.dq, task.id)]
             busy == IF FALSE \in env.free
                     THEN arm_backoff(is_channel_free(w1, FALSE), task, 0, env.draws)
                     ELSE {}
             free == IF TRUE \notin env.free THEN {}
                     ELSE {[write_bits(is_channel_free(w1, TRUE), task, "C", d, env.cap)
                             EXCEPT !.ws = AcsmaSocketWriteTimer_timeout(task, 0)]
                            : d \in env.outs}
         IN busy \cup free

\* Step B or Step C, by whether Step A left a write timer
StepBC(s, a, env) == IF may_dequeue(a.ws) THEN StepC(s, a, env) ELSE StepB(s, a, env)

\* One iteration of the daemon's loop
Iterations(s, env) == UNION {StepBC(s, a, env) : a \in StepA(s, World(s), env)}

socket_daemon(s, env) ==
    /\ life[s].daemon = "running"
    /\ \E w \in Iterations(s, env) :
        /\ write_state' = [write_state EXCEPT ![s] = w.ws]
        /\ read_jar' = [read_jar EXCEPT ![s] = w.jar]
        /\ read_rx' = [read_rx EXCEPT ![s] = w.rx]
        /\ write_rx' = [write_rx EXCEPT ![s] = w.wq]
        /\ deq' = [deq EXCEPT ![s] = w.dq]
        /\ seen' = [seen EXCEPT ![s] = w.sn]
        /\ air' = w.air
        /\ completion' = w.comp
        /\ fwd' = w.fwd
        /\ tx' = w.tx
        /\ life' = [life EXCEPT ![s] = w.life]
        /\ UNCHANGED <<wr, rd, enq, ather, app>>

(***************************************************************************)
(* AcsmaSocketWriter::write: one task per frame, each awaited in turn.     *)
(***************************************************************************)
CallFrames(c) ==
    encode_packet(wr[c].bits, wr[c].sock, wr[c].dest, wr[c].base, TaskId(c, 1))

CallTask(c, i) == [frame |-> CallFrames(c)[i], id |-> TaskId(c, i)]

\* write(dest, bits) up to its first await (the base drawn for an empty bits is not
\* used); write_tx.send fails once the daemon is gone
WriteCall(c, s, dest, bits, base) ==
    /\ wr[c].st = "idle"
    /\ life[s].writer
    /\ \A b \in 1 .. (c - 1) : wr[b].st # "idle"
    /\ dest # s
    /\ base \in encode_bases(bits)
    /\ LET frames == encode_packet(bits, s, dest, base, TaskId(c, 1))
           call == [st |-> "wait", sock |-> s, dest |-> dest, bits |-> bits,
                    base |-> base, idx |-> 1]
       IN
        IF Len(frames) = 0
        THEN /\ base = 0
             /\ wr' = [wr EXCEPT ![c] = [call EXCEPT !.st = "ok", !.idx = 0]]
             /\ UNCHANGED <<write_rx, enq>>
        ELSE IF life[s].daemon # "running"
        THEN /\ wr' = [wr EXCEPT ![c] = [call EXCEPT !.st = "err"]]
             /\ UNCHANGED <<write_rx, enq>>
        ELSE /\ wr' = [wr EXCEPT ![c] = call]
             /\ write_rx' = [write_rx EXCEPT ![s] =
                    Append(write_rx[s], [frame |-> frames[1], id |-> TaskId(c, 1)])]
             /\ enq' = [enq EXCEPT ![s] = Append(enq[s], TaskId(c, 1))]
    /\ UNCHANGED <<write_state, read_jar, read_rx, air, completion, rd,
                   tx, fwd, deq, seen, life, ather, app>>

\* rx.await has a value: the daemon sent a result or dropped the sender
rx_resolved(c) == completion[TaskId(c, wr[c].idx)].st # "pending"

\* A write that takes any resolution of rx for success
rx_ok_any(c) == rx_resolved(c)

\* rx.await?? does not return early: the sender was not dropped, the result is Ok
rx_ok(c) == completion[TaskId(c, wr[c].idx)].st = "Ok"

\* rx.await?? returned: the next frame is enqueued, or the call returns
WriteResume(c) ==
    /\ wr[c].st = "wait"
    /\ rx_resolved(c)
    /\ LET s == wr[c].sock
           i == wr[c].idx
       IN
        IF ~rx_ok(c)
        THEN /\ wr' = [wr EXCEPT ![c].st = "err"]
             /\ UNCHANGED <<write_rx, enq>>
        ELSE IF i = Len(CallFrames(c))
        THEN /\ wr' = [wr EXCEPT ![c].st = "ok"]
             /\ UNCHANGED <<write_rx, enq>>
        ELSE IF life[s].daemon # "running"
        THEN /\ wr' = [wr EXCEPT ![c].st = "err", ![c].idx = i + 1]
             /\ UNCHANGED <<write_rx, enq>>
        ELSE /\ wr' = [wr EXCEPT ![c].idx = i + 1]
             /\ write_rx' = [write_rx EXCEPT ![s] = Append(write_rx[s], CallTask(c, i + 1))]
             /\ enq' = [enq EXCEPT ![s] = Append(enq[s], TaskId(c, i + 1))]
    /\ UNCHANGED <<write_state, read_jar, read_rx, air, completion, rd,
                   tx, fwd, deq, seen, life, ather, app>>

\* Every earlier call has returned
Returned(c) == \A b \in 1 .. (c - 1) : wr[b].st \in {"ok", "err"}

\* The writer handle is dropped, and with it the write calls still awaiting: the
\* last sender of the write-task channel is gone
DropWriter(s) ==
    /\ life[s].writer
    /\ life' = [life EXCEPT ![s].writer = FALSE]
    /\ wr' = [c \in Calls |->
                IF wr[c].sock = s /\ wr[c].st = "wait"
                THEN [wr[c] EXCEPT !.st = "cancelled"]
                ELSE wr[c]]
    /\ UNCHANGED <<write_state, read_jar, write_rx, read_rx, air, completion, rd,
                   tx, fwd, enq, deq, seen, ather, app>>

\* The audio sample source of the socket's decoder closes for good
CloseSource(s) ==
    /\ life[s].source = "open"
    /\ life' = [life EXCEPT ![s].source = "closed"]
    /\ UNCHANGED <<write_state, read_jar, write_rx, read_rx, air, completion, wr, rd,
                   tx, fwd, enq, deq, seen, ather, app>>

\* The reader handle is dropped: the reader channel is closed and what it holds
\* is lost
DropReader(s) ==
    /\ life[s].reader
    /\ life' = [life EXCEPT ![s].reader = FALSE]
    /\ read_rx' = [read_rx EXCEPT ![s] = <<>>]
    /\ rd' = [rd EXCEPT ![s] = IdleRead]
    /\ UNCHANGED <<write_state, read_jar, write_rx, air, completion, wr,
                   tx, fwd, enq, deq, seen, ather, app>>

(***************************************************************************)
(* AcsmaSocketReader.                                                      *)
(***************************************************************************)
\* serve: one iteration of its receive loop
Serve(s) ==
    /\ read_rx[s] # <<>>
    /\ read_rx' = [read_rx EXCEPT ![s] = Tail(read_rx[s])]
    /\ UNCHANGED <<write_state, read_jar, write_rx, air, completion, wr, rd,
                   tx, fwd, enq, deq, seen, life, ather, app>>

\* A bucket in which the last payload filed under a seq stays
or_insert_last(bucket, seq, payload) ==
    [q \in DOMAIN bucket \cup {seq} |-> IF q = seq THEN payload ELSE bucket[q]]

\* bucket.entry(seq).or_insert(payload): the first payload filed under a seq stays
or_insert(bucket, seq, payload) ==
    IF seq \in DOMAIN bucket THEN bucket
    ELSE [q \in DOMAIN bucket \cup {seq} |-> IF q = seq THEN payload ELSE bucket[q]]

\* bucket.iter().fold(..): the payloads of the keys from `from` on, in ascending order
RECURSIVE bucket_fold(_, _)
bucket_fold(bucket, from) ==
    IF from > 2 ^ SEQ_BITS_LEN - 1 THEN <<>>
    ELSE (IF from \in DOMAIN bucket THEN bucket[from] ELSE <<>>)
            \o bucket_fold(bucket, from + 1)

\* read(src) up to its first recv
ReadCall(s, src) ==
    /\ rd[s].st = "idle"
    /\ rd' = [rd EXCEPT ![s] = [st |-> "reading", src |-> src, bucket |-> <<>>,
                                result |-> <<>>]]
    /\ UNCHANGED <<write_state, read_jar, write_rx, read_rx, air, completion, wr,
                   tx, fwd, enq, deq, seen, life, ather, app>>

\* read(src): one iteration of its loop, and the fold and return after the break
ReadStep(s) ==
    /\ rd[s].st = "reading"
    /\ read_rx[s] # <<>>
    /\ read_rx' = [read_rx EXCEPT ![s] = Tail(read_rx[s])]
    /\ LET frame == Head(read_rx[s])
           header == frame
           bucket == or_insert(rd[s].bucket, header.seq, frame.payload)
       IN
        IF rd[s].src = header.src /\ frame.type = "Data"
        THEN IF header.flag = 1
             THEN rd' = [rd EXCEPT ![s].st = "done", ![s].bucket = bucket,
                                   ![s].result = bucket_fold(bucket, 0)]
             ELSE rd' = [rd EXCEPT ![s].bucket = bucket]
        ELSE UNCHANGED rd
    /\ UNCHANGED <<write_state, read_jar, write_rx, air, completion, wr,
                   tx, fwd, enq, deq, seen, life, ather, app>>

\* read(src): recv yields None, the channel being empty and its sender gone with
\* the daemon; the loop ends, and the fold and return follow
ReadEof(s) ==
    /\ rd[s].st = "reading"
    /\ read_rx[s] = <<>>
    /\ life[s].daemon # "running"
    /\ rd' = [rd EXCEPT ![s].st = "done", ![s].result = bucket_fold(rd[s].bucket, 0)]
    /\ UNCHANGED <<write_state, read_jar, write_rx, read_rx, air, completion, wr,
                   tx, fwd, enq, deq, seen, life, ather, app>>

\* The caller has the result of read and is free to call read again
ReadReturn(s) ==
    /\ rd[s].st = "done"
    /\ rd' = [rd EXCEPT ![s] = IdleRead]
    /\ UNCHANGED <<write_state, read_jar, write_rx, read_rx, air, completion, wr,
                   tx, fwd, enq, deq, seen, life, ather, app>>

(***************************************************************************)
(* AtherInputStream: poll_next, suspend and resume on the caller's side,   *)
(* the spawned input task with decode_packet on the other, fed by a        *)
(* noiseless loopback of AtherOutputStream::write.                         *)
(***************************************************************************)
AtherFrame == UNCHANGED <<write_state, read_jar, write_rx, read_rx, air, completion, wr, rd,
                          tx, fwd, enq, deq, seen, life, app>>

TaskState(kind, has, bits) == [bits |-> bits, kind |-> kind, has |-> has]

\* AtherOutputStream::write(bits) into the loopback
loopback_write(bits) ==
    /\ Len(ather.sent) < MaxTracks
    /\ ather.source = "open"
    /\ ather' = [ather EXCEPT !.track = ather.track \o AtherOutputStream_write(bits),
                              !.sent = Append(ather.sent, bits)]
    /\ AtherFrame

\* poll_next
poll_next ==
    /\ LET t == ather.task
       IN
        IF t.kind = "Pending"
        THEN ather' = [ather EXCEPT !.task = TaskState("Running", FALSE, <<>>),
                                    !.cmds = Append(ather.cmds, "Running"),
                                    !.woken = FALSE, !.polled = "Pending", !.item = <<>>]
        ELSE IF t.kind = "Running"
        THEN ather' = [ather EXCEPT !.woken = FALSE, !.polled = "Pending", !.item = <<>>]
        ELSE IF t.kind = "Completed"
        THEN ather' = [ather EXCEPT !.task = TaskState("Pending", FALSE, <<>>),
                                    !.woken = FALSE, !.polled = "Some", !.item = t.bits,
                                    !.got = Append(ather.got, t.bits)]
        ELSE IF t.has
        THEN ather' = [ather EXCEPT !.task = TaskState("Suspended", FALSE, <<>>),
                                    !.woken = FALSE, !.polled = "Some", !.item = t.bits,
                                    !.got = Append(ather.got, t.bits)]
        ELSE ather' = [ather EXCEPT !.woken = FALSE, !.polled = "None", !.item = <<>>]
    /\ AtherFrame

\* ContinuousStream::suspend and resume: one command each
suspend ==
    /\ Len(ather.cmds) < MaxCmds
    /\ ather' = [ather EXCEPT !.cmds = Append(ather.cmds, "Suspended")]
    /\ AtherFrame

resume ==
    /\ Len(ather.cmds) < MaxCmds
    /\ ather' = [ather EXCEPT !.cmds = Append(ather.cmds, "Resume")]
    /\ AtherFrame

\* An input task that stores its result whatever the task state is
decoded_always(a, r) ==
    IF r.dec.done
    THEN [a EXCEPT !.task = TaskState("Completed", FALSE, r.dec.bits), !.woken = TRUE,
                   !.worker = "recv", !.dec = StartDecode, !.buf = r.buf]
    ELSE [a EXCEPT !.worker = "decode", !.dec = r.dec, !.buf = r.buf]

\* The input task after decode_packet has run up to an await or returned Some(bits):
\* a result is stored only over Running(waker), whose waker is then woken
decoded(a, r) ==
    IF r.dec.done
    THEN IF a.task.kind = "Running"
         THEN [a EXCEPT !.task = TaskState("Completed", FALSE, r.dec.bits), !.woken = TRUE,
                        !.worker = "recv", !.dec = StartDecode, !.buf = r.buf]
         ELSE [a EXCEPT !.worker = "recv", !.dec = StartDecode, !.buf = r.buf]
    ELSE [a EXCEPT !.worker = "decode", !.dec = r.dec, !.buf = r.buf]

\* The input task takes a command off its channel
input_task_recv ==
    /\ ather.worker = "recv"
    /\ ather.cmds # <<>>
    /\ LET cmd == Head(ather.cmds)
           a == [ather EXCEPT !.cmds = Tail(ather.cmds)]
           t == ather.task
       IN
        IF cmd = "Running"
        THEN ather' = decoded(a, decode_run(StartDecode, a.buf))
        ELSE IF cmd = "Suspended"
        THEN IF t.kind = "Running"
             THEN ather' = [a EXCEPT !.paused = TRUE, !.woken = TRUE,
                                     !.task = TaskState("Suspended", FALSE, <<>>)]
             ELSE IF t.kind = "Completed"
             THEN ather' = [a EXCEPT !.paused = TRUE,
                                     !.task = TaskState("Suspended", TRUE, t.bits)]
             ELSE ather' = [a EXCEPT !.paused = TRUE]
        ELSE IF t.kind = "Suspended"
             THEN ather' = [a EXCEPT !.paused = FALSE,
                                     !.task = IF t.has THEN TaskState("Completed", FALSE, t.bits)
                                              ELSE TaskState("Pending", FALSE, <<>>)]
             ELSE ather' = [a EXCEPT !.paused = FALSE]
    /\ AtherFrame

\* stream.next().await inside decode_packet yields: a buffer of samples of the
\* track, or of silence once the track has been played (while the preamble is
\* searched silence only grows the buffer), or None once the source is closed
decode_next ==
    /\ ather.worker = "decode"
    /\ \/ /\ ather.track # <<>>
          /\ ~ather.paused
          /\ \E k \in 1 .. MaxChunk :
                LET n == Min(k, Len(ather.track))
                    a == [ather EXCEPT !.track = split_off(ather.track, n)]
                IN ather' = decoded(a, decode_run(ather.dec,
                                                  ather.buf \o SubSeq(ather.track, 1, n)))
       \/ /\ ather.track = <<>>
          /\ ather.source = "open"
          /\ ~ather.paused
          /\ ather.dec.phase # "preamble"
          /\ ather' = decoded(ather, decode_run(ather.dec, Append(ather.buf, "z")))
       \/ /\ ather.track = <<>>
          /\ ather.source = "closed"
          /\ ather' = [ather EXCEPT !.worker = "recv", !.dec = StartDecode, !.buf = <<>>]
    /\ AtherFrame

\* The sample source closes for good: what it has not produced yet never comes
close_source ==
    /\ ather.source = "open"
    /\ ather' = [ather EXCEPT !.source = "closed", !.track = <<>>]
    /\ AtherFrame

(***************************************************************************)
(* AcsmaSocketWriter::perf and ping on one socket.  Their write tasks      *)
(* take the task ids in the order they are sent.                           *)
(***************************************************************************)
AppFrame == UNCHANGED <<write_state, read_jar, read_rx, air, completion, wr, rd,
                        tx, fwd, deq, seen, life, ather>>

\* write_tx.send((frame, tx)) of the task with the given id
send_task(s, frame, id) ==
    /\ write_rx' = [write_rx EXCEPT ![s] = Append(write_rx[s], [frame |-> frame, id |-> id])]
    /\ enq' = [enq EXCEPT ![s] = Append(enq[s], id)]

\* perf_daemon's frame: PAYLOAD_BITS_LEN zeros, seq 0, no flag
perf_frame(dest, src, id) ==
    DataFrame_new(dest, src, 0, 0, [i \in 1 .. PAYLOAD_BITS_LEN |-> 0], id)

\* A perf_main that returns Ok once its channel is disconnected
perf_main_ok == "Ok"

\* What perf_main returns after break 'a
perf_main_result == "PerfTimeout"

\* tokio::try_join!(main, daemon) once both have returned
try_join(main, daemon) == IF main # "Ok" THEN main ELSE daemon

\* perf(dest) up to the first await of its two futures
perf_call(s, dest) ==
    /\ app.perf.st = "idle"
    /\ life[s].writer
    /\ app' = [app EXCEPT !.perf.st = "running", !.perf.sock = s, !.perf.dest = dest,
                          !.perf.sender = "send"]
    /\ UNCHANGED <<write_rx, enq>>
    /\ AppFrame

\* perf_daemon: the head of its loop.  A failed send ends perf with that error
perf_daemon_send ==
    /\ app.perf.st = "running"
    /\ app.perf.sender = "send"
    /\ app.perf.n < Cardinality(TaskIds)
    /\ IF life[app.perf.sock].daemon # "running"
       THEN /\ app' = [app EXCEPT !.perf.sender = "err", !.perf.send_tx = FALSE,
                                  !.perf.st = "returned", !.perf.result = "SendError"]
            /\ UNCHANGED <<write_rx, enq>>
       ELSE /\ app' = [app EXCEPT !.perf.sender = "wait", !.perf.n = app.perf.n + 1]
            /\ send_task(app.perf.sock, perf_frame(app.perf.dest, app.perf.sock, app.perf.n + 1),
                         app.perf.n + 1)
    /\ AppFrame

\* perf_daemon: time::timeout(SOCKET_PERF_TIMEOUT, rx) yields Ok(inner)
perf_daemon_resolved ==
    /\ app.perf.st = "running"
    /\ app.perf.sender = "wait"
    /\ completion[app.perf.n].st # "pending"
    /\ IF completion[app.perf.n].st = "Ok"
       THEN app' = [app EXCEPT !.perf.sender = "send",
                               !.perf.send_rx = Bump(app.perf.send_rx, MaxRx)]
       ELSE app' = [app EXCEPT !.perf.sender = "err", !.perf.send_tx = FALSE,
                               !.perf.st = "returned",
                               !.perf.result = completion[app.perf.n].st]
    /\ UNCHANGED <<write_rx, enq>>
    /\ AppFrame

\* perf_daemon: the timeout elapses first: break, Ok(()), send_tx is dropped
perf_daemon_timeout ==
    /\ app.perf.st = "running"
    /\ app.perf.sender = "wait"
    /\ completion[app.perf.n].st = "pending"
    /\ app' = [app EXCEPT !.perf.sender = "done", !.perf.send_tx = FALSE,
                          !.perf.timed_out = TRUE]
    /\ UNCHANGED <<write_rx, enq>>
    /\ AppFrame

\* perf_main: one round of its outer loop: sleep, drain the channel, and either
\* print the throughput or, the channel being disconnected, return
perf_main ==
    /\ app.perf.st = "running"
    /\ IF app.perf.send_tx
       THEN app' = [app EXCEPT !.perf.send_rx = 0]
       ELSE app' = [app EXCEPT !.perf.send_rx = 0, !.perf.st = "returned",
                               !.perf.result = try_join(perf_main_result, "Ok")]
    /\ UNCHANGED <<write_rx, enq>>
    /\ AppFrame

\* A ping frame with the two addresses swapped
ping_frame_swapped(dest, src, id) == MacPingReqFrame_new(src, dest, id)

\* ping's frame: MacPingReqFrame::new(dest, self.config.address)
ping_frame(dest, src, id) == MacPingReqFrame_new(dest, src, id)

\* ping(dest) up to the first sleep
ping_call(s, dest) ==
    /\ app.ping.st = "idle"
    /\ life[s].writer
    /\ app' = [app EXCEPT !.ping.st = "sleep", !.ping.sock = s, !.ping.dest = dest]
    /\ UNCHANGED <<write_rx, enq>>
    /\ AppFrame

\* ping: the sleep is over, the task is sent.  A failed send ends ping with that error
ping_send ==
    /\ app.ping.st = "sleep"
    /\ app.ping.n < Cardinality(TaskIds)
    /\ IF life[app.ping.sock].daemon # "running"
       THEN /\ app' = [app EXCEPT !.ping.st = "err"]
            /\ UNCHANGED <<write_rx, enq>>
       ELSE /\ app' = [app EXCEPT !.ping.st = "wait", !.ping.n = app.ping.n + 1]
            /\ send_task(app.ping.sock, ping_frame(app.ping.dest, app.ping.sock, app.ping.n + 1),
                         app.ping.n + 1)
    /\ AppFrame

\* ping: time::timeout(SOCKET_PING_TIMEOUT, rx) yields Ok(inner): inner?? returns
\* the error, or the round-trip time is printed
ping_resolved ==
    /\ app.ping.st = "wait"
    /\ completion[app.ping.n].st # "pending"
    /\ IF completion[app.ping.n].st = "Ok"
       THEN app' = [app EXCEPT !.ping.st = "sleep",
                               !.ping.reports = Append(app.ping.reports, "rtt")]
       ELSE app' = [app EXCEPT !.ping.st = "err"]
    /\ UNCHANGED <<write_rx, enq>>
    /\ AppFrame

\* ping: the timeout elapses first: "Ping: timeout" is printed
ping_timeout ==
    /\ app.ping.st = "wait"
    /\ completion[app.ping.n].st = "pending"
    /\ app' = [app EXCEPT !.ping.st = "sleep",
                          !.ping.reports = Append(app.ping.reports, "timeout")]
    /\ UNCHANGED <<write_rx, enq>>
    /\ AppFrame

\* The pinged station goes away for good
peer_dies ==
    /\ app.ping.st # "idle"
    /\ app.ping.up
    /\ app' = [app EXCEPT !.ping.up = FALSE, !.ping.died = app.ping.n]
    /\ UNCHANGED <<write_rx, enq>>
    /\ AppFrame

(***************************************************************************)
(* Spec: socket Self among stations that can send it anything at any time; *)
(* its writer handle is used by concurrent write calls to station Peer.    *)
(***************************************************************************)
Self == 1
Peer == 2

Next ==
    \/ socket_daemon(Self, OpenEnv(Self, Peer))
    \/ \E c \in Calls, bits \in WriteBits, base \in SeqSpace :
        WriteCall(c, Self, Peer, bits, base)
    \/ \E c \in Calls : WriteResume(c)
    \/ Serve(Self)

Spec == Init /\ [][Next]_vars

(***************************************************************************)
(* SpecJar: socket Self as a receiver only.                                *)
(***************************************************************************)
NextJar ==
    \/ socket_daemon(Self, JarEnv(Self, Peer))
    \/ Serve(Self)

SpecJar == Init /\ [][NextJar]_vars

(***************************************************************************)
(* SpecLink: the sockets Self and Peer alone on the medium; Self writes to *)
(* Peer, one call after the other.                                         *)
(***************************************************************************)
NextLink ==
    \/ \E s \in Addr : socket_daemon(s, LinkEnv(s))
    \/ \E c \in Calls, bits \in WriteBits, base \in SeqSpace :
        Returned(c) /\ WriteCall(c, Self, Peer, bits, base)
    \/ \E c \in Calls : WriteResume(c)
    \/ \E s \in Addr : Serve(s)

SpecLink == Init /\ [][NextLink]_vars

(***************************************************************************)
(* SpecSilent: Self writes, nobody answers, the channel is always sensed   *)
(* free and every timer runs out before the daemon looks at it again.      *)
(***************************************************************************)
NextSilent ==
    \/ socket_daemon(Self, SilentEnv)
    \/ \E dest \in Dest, bits \in WriteBits, base \in SeqSpace :
        WriteCall(1, Self, dest, bits, base)

SpecSilent == Init /\ [][NextSilent]_vars /\ WF_vars(socket_daemon(Self, SilentEnv))

(***************************************************************************)
(* SpecBusy: Self writes on a channel that can be sensed busy any number   *)
(* of times in a row, in a build with or without overflow checks.          *)
(***************************************************************************)
BusyEnv ==
    [draws |-> 2 ^ WORD_BITS, track |-> FALSE, expiry |-> {TRUE}, free |-> BOOLEAN,
     outs |-> {AllLost},
     noise |-> {},
     cap |-> TxWatch, retries |-> WORD_BITS + 1]

InitBusy ==
    \E build \in {"release", "debug"} :
        /\ write_state = [s \in Addr |-> NoTimer]
        /\ read_jar = [s \in Addr |-> <<>>]
        /\ write_rx = [s \in Addr |-> <<>>]
        /\ read_rx = [s \in Addr |-> <<>>]
        /\ air = [s \in Addr |-> <<>>]
        /\ completion = [i \in TaskIds |-> Pending]
        /\ wr = [c \in Calls |-> IdleCall]
        /\ rd = [s \in Addr |-> IdleRead]
        /\ tx = [i \in TaskIds |-> 0]
        /\ fwd = [i \in TaskIds |-> 0]
        /\ enq = [s \in Addr |-> <<>>]
        /\ deq = [s \in Addr |-> <<>>]
        /\ seen = [s \in Addr |-> [q \in SeqSpace |-> Unseen]]
        /\ life = [s \in Addr |-> Alive(build)]
        /\ ather = IdleAther
        /\ app = IdleApp

NextBusy ==
    \/ socket_daemon(Self, BusyEnv)
    \/ \E c \in Calls, bits \in WriteBits, base \in SeqSpace :
        WriteCall(c, Self, Peer, bits, base)
    \/ \E c \in Calls : WriteResume(c)

SpecBusy == InitBusy /\ [][NextBusy]_vars

(***************************************************************************)
(* SpecShutdown: Self writes to a station that never answers, and its      *)
(* handles are dropped, and its sample source closes, at any time.         *)
(***************************************************************************)
NextShutdown ==
    \/ socket_daemon(Self, SilentEnv)
    \/ \E bits \in WriteBits, base \in SeqSpace : WriteCall(1, Self, Peer, bits, base)
    \/ DropWriter(Self)
    \/ DropReader(Self)
    \/ CloseSource(Self)

SpecShutdown == Init /\ [][NextShutdown]_vars /\ WF_vars(socket_daemon(Self, SilentEnv))

(***************************************************************************)
(* SpecRead: read(src) on a reader channel that holds the Data frames of   *)
(* one packet Peer wrote to Self, in any order, after a ping of Peer or    *)
(* not.  wr[1] keeps the write call the packet comes from.                 *)
(***************************************************************************)
Perms(n) == {p \in [1 .. n -> 1 .. n] : \A i, j \in 1 .. n : p[i] = p[j] => i = j}

Arrivals(frames) ==
    LET orders == {[i \in 1 .. Len(frames) |-> frames[p[i]]] : p \in Perms(Len(frames))}
    IN orders \cup {<<MacPingReqFrame_new(Self, Peer, 0)>> \o o : o \in orders}

InitRead ==
    \E bits \in BitVecs \ {<<>>} : \E base \in encode_bases(bits) :
        \E arrival \in Arrivals(encode_packet(bits, Peer, Self, base, TaskId(1, 1))) :
            /\ write_state = [s \in Addr |-> NoTimer]
            /\ read_jar = [s \in Addr |-> <<>>]
            /\ write_rx = [s \in Addr |-> <<>>]
            /\ read_rx = [s \in Addr |-> IF s = Self THEN arrival ELSE <<>>]
            /\ air = [s \in Addr |-> <<>>]
            /\ completion = [i \in TaskIds |-> Pending]
            /\ wr = [c \in Calls |->
                        IF c = 1
                        THEN [st |-> "ok", sock |-> Peer, dest |-> Self, bits |-> bits,
                              base |-> base, idx |-> chunks_len(bits)]
                        ELSE IdleCall]
            /\ rd = [s \in Addr |-> IdleRead]
            /\ tx = [i \in TaskIds |-> 0]
            /\ fwd = [i \in TaskIds |-> 0]
            /\ enq = [s \in Addr |-> <<>>]
            /\ deq = [s \in Addr |-> <<>>]
            /\ seen = [s \in Addr |-> [q \in SeqSpace |-> Unseen]]
            /\ life = [s \in Addr |-> Alive("release")]
            /\ ather = IdleAther
            /\ app = IdleApp

NextRead ==
    \/ \E src \in Addr : ReadCall(Self, src)
    \/ ReadStep(Self)

SpecRead == InitRead /\ [][NextRead]_vars

(***************************************************************************)
(* SpecStream: one ather input stream on a noiseless loopback, polled by a *)
(* consumer that polls again whenever it likes (the daemon's receive       *)
(* timeout abandons a poll and the next iteration polls anew).             *)
(***************************************************************************)
NextStream ==
    \/ \E bits \in BitVecs : loopback_write(bits)
    \/ poll_next
    \/ input_task_recv
    \/ decode_next
    \/ suspend
    \/ resume
    \/ close_source

SpecStream ==
    /\ Init
    /\ [][NextStream]_vars
    /\ WF_vars(poll_next)
    /\ WF_vars(input_task_recv)
    /\ WF_vars(decode_next)

(***************************************************************************)
(* SpecWrite: the writer of socket Self on a channel that is busy at       *)
(* times, with station Peer acknowledging at times; the daemon runs in a   *)
(* build with or without overflow checks.                                  *)
(***************************************************************************)
WriteEnv(self, peer) ==
    [draws |-> 0, track |-> FALSE, expiry |-> {TRUE}, free |-> BOOLEAN,
     outs |-> {AllLost},
     noise |-> {ToBits(AckFrame_new(self, peer, seq)) : seq \in SeqSpace},
     cap |-> TxWatch, retries |-> WORD_BITS + 1]

NextWrite ==
    \/ socket_daemon(Self, WriteEnv(Self, Peer))
    \/ \E c \in Calls, bits \in WriteBits, base \in SeqSpace :
        WriteCall(c, Self, Peer, bits, base)
    \/ \E c \in Calls : WriteResume(c)

SpecWrite == InitBusy /\ [][NextWrite]_vars

(***************************************************************************)
(* SpecPerf: perf(Peer) on socket Self, station Peer acknowledging at      *)
(* times.  perf_main runs on a timer of its own.                           *)
(***************************************************************************)
NextPerf ==
    \/ socket_daemon(Self, WriteEnv(Self, Peer))
    \/ perf_call(Self, Peer)
    \/ perf_daemon_send
    \/ perf_daemon_resolved
    \/ perf_daemon_timeout
    \/ perf_main

SpecPerf == InitBusy /\ [][NextPerf]_vars /\ WF_vars(perf_main)

(***************************************************************************)
(* SpecPing: ping(Peer) on socket Self; station Peer answers at times      *)
(* while it is up, the channel is busy at times.                           *)
(***************************************************************************)
PingEnv(self, peer, up) ==
    [draws |-> 0, track |-> FALSE, expiry |-> {TRUE}, free |-> BOOLEAN,
     outs |-> {AllLost},
     noise |-> IF up THEN {ToBits(MacPingRespFrame_new(self, peer))} ELSE {},
     cap |-> TxWatch, retries |-> WORD_BITS + 1]

NextPing ==
    \/ socket_daemon(Self, PingEnv(Self, Peer, app.ping.up))
    \/ ping_call(Self, Peer)
    \/ ping_send
    \/ ping_resolved
    \/ ping_timeout
    \/ peer_dies

SpecPing == InitBusy /\ [][NextPing]_vars

(***************************************************************************)
(* SpecCollide: sockets Self and Peer after a collision.  Each has called  *)
(* write for the other, each daemon has dequeued the task, sensed the      *)
(* channel busy and armed a Backoff of retry 0.  From there on a           *)
(* transmission reaches the other socket or is lost in a further           *)
(* collision.                                                              *)
(***************************************************************************)
CollideEnv(s) ==
    [draws |-> 1, track |-> FALSE, expiry |-> BOOLEAN, free |-> BOOLEAN,
     outs |-> {d \in [Addr -> {"lost", "ok"}] : d[s] = "lost"},
     noise |-> {},
     cap |-> IF s = Self THEN MaxTx ELSE TxWatch, retries |-> MaxRetry]

\* The write call of socket s, and its one task
CollideCall(s) == [bits |-> <<1>>, dest |-> 3 - s, base |-> 0, st |-> "wait", sock |-> s, idx |-> 1]

CollideTask(s) ==
    [frame |-> encode_packet(<<1>>, s, 3 - s, 0, TaskId(s, 1))[1], id |-> TaskId(s, 1)]

InitCollide ==
    /\ write_state \in
            {[s \in Addr |-> create_backoff(CollideTask(s), 0, d[s])]
                : d \in [Addr -> generate_backoff(0, 1)]}
    /\ read_jar = [s \in Addr |-> <<>>]
    /\ write_rx = [s \in Addr |-> <<>>]
    /\ read_rx = [s \in Addr |-> <<>>]
    /\ air = [s \in Addr |-> <<>>]
    /\ completion = [i \in TaskIds |-> Pending]
    /\ wr = [c \in Calls |-> IF c \in Addr THEN CollideCall(c) ELSE IdleCall]
    /\ rd = [s \in Addr |-> IdleRead]
    /\ tx = [i \in TaskIds |-> 0]
    /\ fwd = [i \in TaskIds |-> 0]
    /\ enq = [s \in Addr |-> <<TaskId(s, 1)>>]
    /\ deq = [s \in Addr |-> <<TaskId(s, 1)>>]
    /\ seen = [s \in Addr |-> [q \in SeqSpace |-> Unseen]]
    /\ life = [s \in Addr |-> Alive("release")]
    /\ ather = IdleAther
    /\ app = IdleApp

NextCollide ==
    \/ \E s \in Addr : socket_daemon(s, CollideEnv(s))
    \/ \E c \in Calls : WriteResume(c)
    \/ \E s \in Addr : Serve(s)

SpecCollide == InitCollide /\ [][NextCollide]_vars

(***************************************************************************)
(* SpecLoopback: the same stream when nobody suspends it.                  *)
(***************************************************************************)
NextLoopback ==
    \/ \E bits \in BitVecs : loopback_write(bits)
    \/ poll_next
    \/ input_task_recv
    \/ decode_next
    \/ close_source

SpecLoopback ==
    /\ Init
    /\ [][NextLoopback]_vars
    /\ WF_vars(poll_next)
    /\ WF_vars(input_task_recv)
    /\ WF_vars(decode_next)

(***************************************************************************)
(* Retransmission (SpecSilent).                                            *)
(***************************************************************************)
Dequeued(s, i) == \E k \in 1 .. Len(deq[s]) : deq[s][k] = i

LinkError(n) == [st |-> "LinkError", n |-> n]

\* C1: the daemon transmits the frame of a write task at most
\* SOCKET_MAX_RESENDS + 1 times in total (Step C and Step B together).
C1_TransmissionsBounded == \A i \in TaskIds : tx[i] <= SOCKET_MAX_RESENDS + 1

\* C2: when nobody answers and the channel is always sensed free, the write of a
\* frame ends with LinkError(SOCKET_MAX_RESENDS + 1), after exactly
\* SOCKET_MAX_RESENDS + 1 transmissions of the frame.
C2_SilentPeerLinkError ==
    \A i \in TaskIds :
        (tx[i] > 0) ~> (/\ completion[i] = LinkError(SOCKET_MAX_RESENDS + 1)
                        /\ tx[i] = SOCKET_MAX_RESENDS + 1)

\* C3: every write task the daemon dequeued is eventually completed, with Ok or
\* with LinkError, and the write timer it occupied becomes empty.
C3_DequeuedEventuallyCompleted ==
    \A i \in TaskIds :
        Dequeued(Self, i) ~> (/\ completion[i].st \in {"Ok", "LinkError"}
                              /\ write_state[Self].kind = "None")

(***************************************************************************)
(* Delivery (SpecLink).                                                    *)
(***************************************************************************)
\* C4: every Data frame of a write call that returned Ok was forwarded to the
\* destination's reader channel exactly once.
C4_ReliableDelivery ==
    \A c \in Calls :
        wr[c].st = "ok" =>
            \A i \in 1 .. Len(CallFrames(c)) : fwd[TaskId(c, i)] = 1

\* C8: the Data frames of a write call that returned Ok, for bits of any length,
\* have the seqs base, base + 1, ... in order, and exactly one of them, the last,
\* has the EOP flag set.
C8_FramesOfOkWrite ==
    \A c \in Calls :
        wr[c].st = "ok" =>
            LET frames == CallFrames(c)
                eop == {i \in 1 .. Len(frames) : frames[i].flag = 1}
            IN /\ \A i \in 1 .. Len(frames) : frames[i].seq = wr[c].base + i - 1
               /\ \A i \in 1 .. (Len(frames) - 1) : frames[i].seq < frames[i + 1].seq
               /\ eop = {Len(frames)}
               /\ Cardinality(eop) = 1

(***************************************************************************)
(* The dedup jar (SpecJar).                                                *)
(***************************************************************************)
\* The Data frames socket s accepts among those it can hear
DataHeard(s, env) ==
    {b \in env.noise : try_from_ok(b) /\ is_for_self(s, b.frame) /\ b.frame.type = "Data"}

Ack(s, frame) == [step |-> "A", bits |-> ToBits(AckFrame_new(frame.src, frame.dest, frame.seq))]

\* C5: a Data frame whose seq was already forwarded to the reader, with fewer than
\* SOCKET_JAR_CAPACITY new seqs forwarded since, is not forwarded again; and a
\* response is written for every Data frame received, forwarded or not.
C5_AtMostOnceUpward ==
    \A b \in DataHeard(Self, JarEnv(Self, Peer)) :
        \A w \in Receive(Self, World(Self), b, JarEnv(Self, Peer)) :
            /\ w.out = <<Ack(Self, b.frame)>>
            /\ LET was == seen[Self][b.frame.seq]
               IN was.fwd /\ was.news < SOCKET_JAR_CAPACITY =>
                    /\ w.rx = read_rx[Self]
                    /\ w.jar = read_jar[Self]

\* A second Data frame with a seq was received and withheld after
\* SOCKET_JAR_CAPACITY - 1 other seqs had been forwarded
C5_Witness ==
    \E q \in SeqSpace :
        /\ seen[Self][q].fwd
        /\ seen[Self][q].dup
        /\ seen[Self][q].news = SOCKET_JAR_CAPACITY - 1

(***************************************************************************)
(* The daemon's loop (Spec).                                               *)
(***************************************************************************)
\* What Step A can leave when the decoder of Self yields b in the current state
Received(b) == Receive(Self, World(Self), b, OpenEnv(Self, Peer))

\* The decodable frames Self can hear
Decoded == {b \in OpenEnv(Self, Peer).noise : try_from_ok(b)}

\* C6: for a received Data frame with src S, dest self and seq q the daemon writes
\* exactly one Ack with src self, dest S and seq q in that Step A, without sensing
\* the channel, whatever the write timer is; nothing else is written in Step A.
C6_AckSymmetry ==
    \A b \in Decoded :
        b.frame.type = "Data" /\ b.frame.dest = Self =>
            LET ack == [step |-> "A",
                        bits |-> ToBits(AckFrame_new(b.frame.src, Self, b.frame.seq))]
            IN \A a \in Received(b) :
                /\ a.out = <<ack>>
                /\ a.sensed = <<>>
                /\ \A w \in StepBC(Self, a, OpenEnv(Self, Peer)) :
                    /\ Head(w.out) = ack
                    /\ \A k \in 2 .. Len(w.out) : w.out[k].step # "A"

\* A duplicate Data frame for Self is acknowledged, and withheld from the reader,
\* while a Backoff timer holds a task
C6_Witness ==
    /\ write_state[Self].kind = "Backoff"
    /\ write_state[Self].has
    /\ \E b \in Decoded :
        /\ b.frame.type = "Data"
        /\ b.frame.dest = Self
        /\ jar_contains(read_jar[Self], b.frame.seq)
        /\ \E a \in Received(b) : Len(a.out) = 1 /\ a.rx = read_rx[Self]

\* The tasks the daemon dequeued and has not completed
InFlight(s) == {i \in TaskIds : Dequeued(s, i) /\ completion[i].st = "pending"}

IsPrefix(a, b) == Len(a) <= Len(b) /\ SubSeq(b, 1, Len(a)) = a

StopAndWait(s) ==
    /\ Cardinality(InFlight(s)) <= 1
    /\ \A i \in InFlight(s) : write_state[s].has /\ write_state[s].task.id = i
    /\ write_state[s].has => write_state[s].task.id \in InFlight(s)
    /\ IsPrefix(deq[s], enq[s])

\* C7: the write timer holds at most one task, the one task that was dequeued and
\* is not completed; tasks are dequeued in the order they were enqueued; and a
\* task is dequeued only in an iteration that starts with no write timer at all.
C7_StopAndWait ==
    /\ StopAndWait(Self)
    /\ [][/\ StopAndWait(Self)'
          /\ deq'[Self] # deq[Self] =>
                /\ write_state[Self].kind = "None"
                /\ Len(deq'[Self]) = Len(deq[Self]) + 1]_vars

\* A second task was dequeued while another one waits in the queue
C7_Witness ==
    /\ Len(deq[Self]) >= 2
    /\ write_rx[Self] # <<>>
    /\ write_state[Self].kind = "Timeout"

\* C10: the daemon accepts a decoded frame iff dest = self, or dest is the broadcast
\* address and src # self; for every other frame it writes nothing, leaves the jar
\* and the write timer as they are and forwards nothing.
C10_Addressing ==
    \A b \in Decoded :
        LET h == b.frame
            mine == h.dest = Self \/ (h.dest = SOCKET_BROADCAST_ADDRESS /\ h.src # Self)
        IN \A a \in Received(b) :
            /\ ~mine =>
                /\ a.out = <<>>
                /\ a.jar = read_jar[Self]
                /\ a.ws = write_state[Self]
                /\ a.rx = read_rx[Self]
                /\ a.comp = completion
                /\ a.fwd = fwd
            /\ mine /\ h.type \in NonAckTypes => Len(a.out) = 1
            /\ mine /\ h.type \in AckTypes /\ clear_matches(h, write_state[Self]) =>
                /\ a.ws # write_state[Self]
                /\ a.comp # completion

\* The socket hears its own broadcast Data frame, and an Ack for another station
\* that carries the seq of the frame its timer waits for
C10_Witness ==
    /\ write_state[Self].kind = "Timeout"
    /\ write_state[Self].task.frame.dest = Peer
    /\ \E b \in Decoded :
        /\ b.frame.type = "Ack"
        /\ b.frame.dest = Peer
        /\ b.frame.seq = write_state[Self].task.frame.seq
        /\ Received(b) = {[World(Self) EXCEPT !.got = b]}
    /\ \E b \in Decoded :
        /\ b.frame.type = "Data"
        /\ b.frame.dest = SOCKET_BROADCAST_ADDRESS
        /\ b.frame.src = Self
        /\ ~jar_contains(read_jar[Self], b.frame.seq)
        /\ Received(b) = {[World(Self) EXCEPT !.got = b]}

(***************************************************************************)
(* Reassembly (SpecRead).                                                  *)
(***************************************************************************)
\* C9: read(src) returns the bits of the sender's packet, its payloads in
\* ascending seq order, whatever the order in which the packet's Data frames
\* arrived on the reader channel.
C9_ReadInSenderOrder ==
    rd[Self].st = "done" /\ rd[Self].src = wr[1].sock => rd[Self].result = wr[1].bits

(***************************************************************************)
(* Back-off (SpecBusy).                                                    *)
(***************************************************************************)
\* C11: every back-off the daemon arms lasts k * SOCKET_SLOT_TIMEOUT with
\* 0 <= k <= min(2^retry, SOCKET_MAX_RANGE), for every retry the daemon reaches,
\* those beyond the width of the shift included.
C11_BackoffBounds ==
    \A s \in Addr :
        write_state[s].kind = "Backoff" =>
            \E k \in 0 .. Min(2 ^ write_state[s].retry, SOCKET_MAX_RANGE) :
                write_state[s].dur = k * SOCKET_SLOT_TIMEOUT

\* A back-off of more than no time armed after as many busy senses as the word
\* has bits
C11_Witness ==
    /\ write_state[Self].kind = "Backoff"
    /\ write_state[Self].retry >= WORD_BITS
    /\ write_state[Self].dur > 0

(***************************************************************************)
(* Shutdown (SpecShutdown).                                                *)
(***************************************************************************)
HandlesDropped(s) == ~life[s].writer /\ ~life[s].reader

\* C12: once the writer and the reader handle are both dropped the daemon
\* eventually leaves its loop, whatever its write timer holds at that time; and it
\* never leaves the loop while one of the handles exists.
C12_Shutdown ==
    /\ HandlesDropped(Self) ~> (life[Self].daemon = "exited")
    /\ [](life[Self].daemon = "exited" => HandlesDropped(Self))

\* C13: once the sample source is closed for good the daemon leaves its loop the
\* next time it tries to receive: it takes no further step on its write timer.
C13_SourceClosedExit ==
    [][life[Self].source = "closed" /\ write_state'[Self] # write_state[Self]
            => life'[Self].daemon = "exited"]_vars

(***************************************************************************)
(* The ather input stream (SpecStream).                                    *)
(***************************************************************************)
\* C14: once the sample source has closed while the stream is decoding (its task
\* state is Running), a later poll_next returns None, the end of the stream
C14_ClosedSourceTerminates ==
    (ather.source = "closed" /\ ather.task.kind = "Running") ~> (ather.polled = "None")

\* What the length loop of decode_packet makes of the length field of n, one more
\* sample following it
decoded_length(n) ==
    decode_run([StartDecode EXCEPT !.phase = "length"], Append(length_field(n), "z")).dec.length

\* The bit vectors the stream returned are the ones written, in order
RoundTrip ==
    \A i \in 1 .. Len(ather.got) :
        i <= Len(ather.sent) /\ Len(ather.sent[i]) <= PAYLOAD_BITS_LEN
            => ather.got[i] = ather.sent[i]

LengthRoundTrip == \A n \in 0 .. PAYLOAD_LEN : decoded_length(n) = n

\* decode_packet awaits more samples only while the next symbol is incomplete
EagerDecode ==
    ather.worker = "decode" /\ ather.dec.phase # "preamble" => Len(ather.buf) < symbol_len

\* C17: what write(b) plays is decoded to exactly b for b of up to PAYLOAD_BITS_LEN
\* bits, the length field decodes to every length up to PAYLOAD_LEN, and decoding
\* goes on as soon as the buffer holds symbol_len samples of the next symbol
C17_ModemRoundTrip == RoundTrip /\ LengthRoundTrip /\ EagerDecode

(***************************************************************************)
(* The writer (SpecWrite).                                                 *)
(***************************************************************************)
\* The number of frames of call c that were handed to the daemon
Enqueued(c) ==
    Cardinality({i \in 1 .. MaxFrames :
                    \E k \in 1 .. Len(enq[wr[c].sock]) : enq[wr[c].sock][k] = TaskId(c, i)})

\* C15: within one write call a frame is handed to the daemon only after the
\* completion of the frame before it carried Ok; the call returns Ok only after
\* every frame of the packet completed Ok; and it returns an error at the first
\* failure (a completion that is not Ok, or a send to a daemon that is gone), the
\* failed frame being the last one it handed over
C15_WriterStopAndWait ==
    \A c \in Calls : wr[c].st # "idle" =>
        /\ \A i \in 1 .. MaxFrames :
                (\E k \in 1 .. Len(enq[wr[c].sock]) : enq[wr[c].sock][k] = TaskId(c, i))
                    => /\ i <= Enqueued(c)
                       /\ \A j \in 1 .. (i - 1) : completion[TaskId(c, j)].st = "Ok"
        /\ wr[c].st = "ok" =>
                /\ Enqueued(c) = Len(CallFrames(c))
                /\ \A i \in 1 .. Enqueued(c) : completion[TaskId(c, i)].st = "Ok"
        /\ wr[c].st = "err" =>
                \/ /\ Enqueued(c) >= 1
                   /\ completion[TaskId(c, Enqueued(c))].st \notin {"Ok", "pending"}
                \/ /\ life[wr[c].sock].daemon # "running"
                   /\ Enqueued(c) < Len(CallFrames(c))

\* Witness: a two-frame write returned Ok, and a later two-frame write returned
\* the error of its first frame without handing over the second
C15_Witness ==
    \E c, d \in Calls :
        /\ wr[c].st = "ok" /\ Len(CallFrames(c)) = 2
        /\ wr[d].st = "err" /\ Len(CallFrames(d)) = 2 /\ Enqueued(d) = 1
        /\ completion[TaskId(d, 1)] = Dropped

(***************************************************************************)
(* perf (SpecPerf).                                                        *)
(***************************************************************************)
\* C16: once perf_daemon has timed out on a frame's completion it sends no further
\* frame, perf_main eventually stops and perf returns PerfTimeout; and perf never
\* returns Ok
C16_PerfTimeout ==
    /\ [](app.perf.result # "Ok")
    /\ [][app.perf.timed_out => enq'[Self] = enq[Self]]_vars
    /\ app.perf.timed_out ~> (app.perf.st = "returned" /\ app.perf.result = "PerfTimeout")
    /\ [](app.perf.timed_out /\ app.perf.st = "returned" => app.perf.result = "PerfTimeout")

\* Witness: perf returned PerfTimeout after a frame that was acknowledged and one
\* that timed out
C16_Witness ==
    /\ app.perf.st = "returned"
    /\ app.perf.result = "PerfTimeout"
    /\ app.perf.n >= 2
    /\ completion[1].st = "Ok"

(***************************************************************************)
(* ping (SpecPing).                                                        *)
(***************************************************************************)
\* The iterations of ping that have ended
Ended == IF app.ping.st = "wait" THEN app.ping.n - 1 ELSE app.ping.n

\* Every iteration begun sent exactly one task, a MacPingReq to the pinged station
OnePingEach ==
    /\ enq[Self] = [k \in 1 .. app.ping.n |-> k]
    /\ \A k \in 1 .. Len(write_rx[Self]) :
            write_rx[Self][k].frame
                = MacPingReqFrame_new(app.ping.dest, Self, write_rx[Self][k].id)
    /\ write_state[Self].has =>
            write_state[Self].task.frame
                = MacPingReqFrame_new(app.ping.dest, Self, write_state[Self].task.id)

\* A round-trip time is reported only for a task that was completed with Ok, and
\* every iteration begun after the peer went away reports timeout
Reports ==
    \A k \in 1 .. Len(app.ping.reports) :
        /\ app.ping.reports[k] = "rtt" => completion[k].st = "Ok"
        /\ ~app.ping.up /\ k > app.ping.died => app.ping.reports[k] = "timeout"

AckEnv == [WriteEnv(Self, Peer) EXCEPT !.draws = 1, !.expiry = BOOLEAN]

\* The Acks that answer the task the write timer holds
MatchingAcks == {b \in AckEnv.noise : clear_matches(b.frame, write_state[Self])}

Cleared(b) == Receive(Self, World(Self), b, AckEnv)

\* C20 as stated: a matching Ack makes Step A signal Ok and leave no write timer, and
\* the next queued task is dequeued in the same iteration
C20_AckClearsTimer ==
    \A b \in MatchingAcks : \A a \in Cleared(b) :
        /\ a.comp[write_state[Self].task.id].st = "Ok"
        /\ a.ws = NoTimer
        /\ write_rx[Self] # <<>> =>
                \A w \in StepBC(Self, a, AckEnv) : w.dq = Append(deq[Self], write_rx[Self][1].id)

\* C20, amended: a matching Ack makes Step A signal Ok and replace the timer by a
\* Backoff without a task, of retry 0 and of 0 or 1 slots; the iteration dequeues
\* and transmits nothing, and ends with that Backoff or, if it has expired, with
\* no timer
C20_AckLeavesBackoff ==
    \A b \in MatchingAcks : \A a \in Cleared(b) :
        /\ a.comp[write_state[Self].task.id].st = "Ok"
        /\ a.ws \in {AcsmaSocketWriteTimer_backoff(FALSE, NoTask, 0, k * SOCKET_SLOT_TIMEOUT)
                        : k \in 0 .. 1}
        /\ \A w \in StepBC(Self, a, AckEnv) :
                /\ w.dq = deq[Self]
                /\ w.wq = write_rx[Self]
                /\ w.out = <<>>
                /\ w.sensed = <<>>
                /\ w.ws \in {a.ws, NoTimer}

\* Witness: the timer holds a task, another task waits in the queue, and an Ack
\* that answers the timer's task is received, with a back-off of one slot drawn
C20_Witness ==
    /\ write_state[Self].has
    /\ write_rx[Self] # <<>>
    /\ \E b \in MatchingAcks : \E a \in Cleared(b) :
            /\ a.ws.dur = SOCKET_SLOT_TIMEOUT
            /\ a.comp[write_state[Self].task.id].st = "Ok"

(***************************************************************************)
(* Collision recovery (SpecCollide).                                       *)
(***************************************************************************)
\* C18: after both sockets sensed the channel busy and backed off, each write task
\* is completed with Ok within SOCKET_MAX_RESENDS retransmissions: none is
\* transmitted more often than that, and none ends otherwise
C18_RecoveryWithinResends ==
    \A s \in Addr :
        /\ tx[TaskId(s, 1)] <= SOCKET_MAX_RESENDS + 1
        /\ completion[TaskId(s, 1)].st \in {"pending", "Ok"}
        /\ write_state[s].has => write_state[s].resends <= SOCKET_MAX_RESENDS

(***************************************************************************)
(* Resend counting (SpecCollide).  The tasks of SpecCollide were armed as  *)
(* Backoff when they were dequeued, so every transmission of their frames  *)
(* is a retransmission made by Step B, and tx counts them.                 *)
(***************************************************************************)
\* The write timer of socket s holds the same task before and after the step
SameTask(s) ==
    /\ write_state[s].has
    /\ write_state'[s].has
    /\ write_state'[s].task = write_state[s].task

\* C21: the resends value of the timer is preserved when a Timeout or a Backoff
\* becomes a Backoff with the same task, a Timeout armed after a retransmission
\* carries one more than the Timeout before it, and so resends always equals the
\* number of retransmissions made for the task so far.
C21_ResendCounting ==
    /\ [](write_state[Self].has /\ tx[write_state[Self].task.id] < MaxTx =>
            write_state[Self].resends = tx[write_state[Self].task.id])
    /\ [][SameTask(Self) /\ write_state'[Self].kind = "Backoff" =>
            write_state'[Self].resends = write_state[Self].resends]_vars
    /\ [][SameTask(Self) /\ write_state'[Self].kind = "Timeout"
                /\ write_state'[Self] # write_state[Self] =>
            write_state'[Self].resends = tx[write_state[Self].task.id] + 1]_vars

(***************************************************************************)
(* The timer phase (SpecWrite).                                            *)
(***************************************************************************)
\* What Step B meets: a timer that has or has not expired, a channel that is or
\* is not free, any back-off draw
PhaseEnv(expired, free) ==
    [WriteEnv(Self, Peer) EXCEPT !.draws = SOCKET_MAX_RANGE, !.expiry = {expired},
                                 !.free = {free}]

\* The world Step B starts from, the timer's inner carrying `resends`
PhaseWorld(resends) == [World(Self) EXCEPT !.ws.resends = resends]

\* Step B on the current write timer
Phase(resends, expired, free) ==
    StepB(Self, PhaseWorld(resends), PhaseEnv(expired, free))

\* The resends values Step B is looked at with: the timer's own, and the two around
\* the limit
PhaseResends == {write_state[Self].resends, SOCKET_MAX_RESENDS, SOCKET_MAX_RESENDS + 1}

\* Timer t is a Backoff of the given retry that holds the given task
IsBackoff(t, task, retry) ==
    /\ t.kind = "Backoff"
    /\ t.has
    /\ t.task = task
    /\ t.retry = retry
    /\ \E k \in 0 .. SOCKET_MAX_RANGE : t.dur = k * SOCKET_SLOT_TIMEOUT

\* The parts of the statement that do not depend on the build
PhaseCommon(r) ==
    LET timer == PhaseWorld(r).ws
        start == PhaseWorld(r)
    IN
    /\ \A free \in BOOLEAN : \A w \in Phase(r, FALSE, free) : w = start
    /\ timer.kind = "Timeout" =>
        \A free \in BOOLEAN : \A w \in Phase(r, TRUE, free) :
            /\ IsBackoff(w.ws, timer.task, 0)
            /\ w.out = <<>>
            /\ w.sensed = <<>>
            /\ w.comp = completion
    /\ timer.kind = "Backoff" /\ timer.has =>
        \A w \in Phase(r, TRUE, TRUE) :
            /\ w.sensed = <<TRUE>>
            /\ IF timer.resends > SOCKET_MAX_RESENDS
               THEN /\ w.comp[timer.task.id] = LinkError(timer.resends)
                    /\ w.ws = NoTimer
                    /\ w.out = <<>>
               ELSE /\ w.out = <<[step |-> "B", bits |-> ToBits(timer.task.frame)]>>
                    /\ w.ws = AcsmaSocketWriteTimer_timeout(timer.task, timer.resends + 1)
                    /\ w.comp = completion
    /\ timer.kind = "Backoff" /\ ~timer.has =>
        \A free \in BOOLEAN : \A w \in Phase(r, TRUE, free) :
            /\ w.ws = NoTimer
            /\ w.out = <<>>
            /\ w.sensed = <<>>

\* An expired Backoff with a task that senses the channel busy
PhaseBusy(r) ==
    LET timer == PhaseWorld(r).ws
    IN timer.kind = "Backoff" /\ timer.has =>
        \A w \in Phase(r, TRUE, FALSE) :
            /\ IsBackoff(w.ws, timer.task, timer.retry + 1)
            /\ w.out = <<>>
            /\ w.sensed = <<FALSE>>

\* The same, where the build traps the overflow of 1 << (retry + 1)
PhaseBusyOrPanic(r) ==
    LET timer == PhaseWorld(r).ws
    IN timer.kind = "Backoff" /\ timer.has =>
        \A w \in Phase(r, TRUE, FALSE) :
            /\ w.out = <<>>
            /\ w.sensed = <<FALSE>>
            /\ IF life[Self].build = "debug" /\ timer.retry + 1 >= WORD_BITS
               THEN /\ w.life.daemon = "panicked"
                    /\ w.ws = NoTimer
                    /\ w.comp[timer.task.id] = Dropped
               ELSE IsBackoff(w.ws, timer.task, timer.retry + 1)

TaskOut(w) == SelectSeq(w.out, LAMBDA o : o.step # "A")

\* C23: the daemon transmits the frame of a write task, for the first time or
\* again, only in a step in which it has just sensed the channel free, and once;
\* a task it dequeues on a busy channel is not transmitted and is armed as
\* Backoff{retry: 0}; a task it dequeues on a free channel is transmitted once and
\* armed as Timeout{resends: 0}.
C23_CarrierSense ==
    /\ \A w \in Iterations(Self, AckEnv) :
        /\ Len(TaskOut(w)) <= 1
        /\ Len(w.sensed) <= 1
        /\ TaskOut(w) # <<>> =>
            /\ w.sensed = <<TRUE>>
            /\ w.ws.kind = "Timeout"
            /\ TaskOut(w)[1].bits = ToBits(w.ws.task.frame)
            /\ w.out[Len(w.out)] = TaskOut(w)[1]
        /\ w.sensed # <<TRUE>> => w.tx = tx
    /\ write_state[Self].kind = "None" /\ write_rx[Self] # <<>> =>
        LET task == write_rx[Self][1]
        IN /\ \A w \in Iterations(Self, PhaseEnv(TRUE, FALSE)) :
                /\ w.sensed = <<FALSE>>
                /\ TaskOut(w) = <<>>
                /\ w.tx = tx
                /\ IsBackoff(w.ws, task, 0)
                /\ w.dq = Append(deq[Self], task.id)
           /\ \A w \in Iterations(Self, PhaseEnv(TRUE, TRUE)) :
                /\ w.sensed = <<TRUE>>
                /\ TaskOut(w) = <<[step |-> "C", bits |-> ToBits(task.frame)]>>
                /\ w.tx[task.id] = tx[task.id] + 1
                /\ w.ws.kind = "Timeout"
                /\ w.ws.task = task
                /\ w.ws.resends = 0
                /\ w.dq = Append(deq[Self], task.id)

\* Witness: with no write timer left after an earlier task, the next task waits in
\* the queue and can be dequeued on a busy and on a free channel
C23_Witness ==
    /\ write_state[Self].kind = "None"
    /\ write_rx[Self] # <<>>
    /\ deq[Self] # <<>>
    /\ Iterations(Self, PhaseEnv(TRUE, FALSE)) # {}
    /\ Iterations(Self, PhaseEnv(TRUE, TRUE)) # {}

(***************************************************************************)
(* Step ordering (SpecWrite).                                              *)
(***************************************************************************)
\* The Acks of station Peer that carry the seq of the Data frame the timer holds
AnsweringAcks ==
    {b \in AckEnv.noise :
        /\ write_state[Self].has
        /\ write_state[Self].task.frame.type = "Data"
        /\ b.frame.type = "Ack"
        /\ b.frame.dest = Self
        /\ b.frame.seq = write_state[Self].task.frame.seq}

\* C24: Step A is complete before the timer phase or the enqueue phase begins: when
\* an Ack that answers the timer's task is received in an iteration in which the
\* task's Timeout or Backoff has expired, the task is completed with Ok and, in
\* that iteration, is neither retransmitted nor moved to a longer back-off, and no
\* task is dequeued (Step B meets the timer Step A left, expired or not).
C24_StepOrdering ==
    \A b \in AnsweringAcks : \A free \in BOOLEAN :
        LET env == PhaseEnv(TRUE, free)
            task == write_state[Self].task
        IN \A a \in Receive(Self, World(Self), b, env) :
            /\ a.comp[task.id].st = "Ok"
            /\ ~a.ws.has
            /\ a.out = <<>>
            /\ \A w \in StepBC(Self, a, [env EXCEPT !.expiry = BOOLEAN]) :
                /\ w.comp[task.id].st = "Ok"
                /\ w.out = <<>>
                /\ w.sensed = <<>>
                /\ w.tx = tx
                /\ w.ws \in {a.ws, NoTimer}
                /\ w.dq = deq[Self]

\* Witness: a Backoff reached after busy senses holds a task that was transmitted,
\* and an Ack for it is received in an iteration that finds the back-off expired
C24_Witness ==
    /\ write_state[Self].kind = "Backoff"
    /\ write_state[Self].has
    /\ write_state[Self].retry > 0
    /\ tx[write_state[Self].task.id] > 0
    /\ \E b \in AnsweringAcks :
        \E a \in Receive(Self, World(Self), b, PhaseEnv(TRUE, FALSE)) :
            /\ a.comp[write_state[Self].task.id].st = "Ok"
            /\ StepBC(Self, a, PhaseEnv(TRUE, FALSE)) # {}

(***************************************************************************)
(* The jar and pings (SpecJar).                                            *)
(***************************************************************************)
\* The frames of the given type socket s accepts among those it can hear
TypeHeard(s, env, type) ==
    {b \in env.noise : try_from_ok(b) /\ is_for_self(s, b.frame) /\ b.frame.type = type}

\* C25: the jar is consulted and updated for Data frames only: a MacPingReq for
\* this socket puts nothing into the jar, and a Data frame whose seq was not
\* forwarded as a Data frame before is forwarded, whatever pings were received.
C25_JarDataOnly ==
    /\ \A b \in TypeHeard(Self, JarEnv(Self, Peer), "MacPingReq") :
        \A w \in Receive(Self, World(Self), b, JarEnv(Self, Peer)) :
            w.jar = read_jar[Self]
    /\ \A b \in TypeHeard(Self, JarEnv(Self, Peer), "Data") :
        ~seen[Self][b.frame.seq].fwd =>
            \A w \in Receive(Self, World(Self), b, JarEnv(Self, Peer)) :
                w.rx = Append(read_rx[Self], b.frame)

\* What Step A can leave when the decoder of Self yields b, as a receiver
JarReceived(b) == Receive(Self, World(Self), b, JarEnv(Self, Peer))

\* The response the daemon writes for a Data or MacPingReq frame
Resp(frame) ==
    [step |-> "A",
     bits |-> IF frame.type = "Data"
              THEN ToBits(AckFrame_new(frame.src, frame.dest, frame.seq))
              ELSE ToBits(MacPingRespFrame_new(frame.src, frame.dest))]

\* The jar after seq was put in, the oldest entry making room when it is full
Pushed(jar, seq) ==
    IF Len(jar) = SOCKET_JAR_CAPACITY
    THEN SubSeq(jar, 2, Len(jar)) \o <<seq>>
    ELSE jar \o <<seq>>

\* C26: the jar holds at most SOCKET_JAR_CAPACITY entries and no seq twice; a seq
\* enters it only with a frame addressed to this socket, after the response to that
\* frame was written; the entry that makes room on overflow is the oldest; and
\* nothing but the receive phase changes the jar.
C26_JarInvariant ==
    /\ Len(read_jar[Self]) <= SOCKET_JAR_CAPACITY
    /\ \A i, j \in 1 .. Len(read_jar[Self]) :
        read_jar[Self][i] = read_jar[Self][j] => i = j
    /\ \A b \in JarEnv(Self, Peer).noise : \A a \in JarReceived(b) :
        /\ a.jar # read_jar[Self] =>
            /\ try_from_ok(b)
            /\ b.frame.dest = Self
                \/ (b.frame.dest = SOCKET_BROADCAST_ADDRESS /\ b.frame.src # Self)
            /\ b.frame.type \in NonAckTypes
            /\ a.out = <<Resp(b.frame)>>
            /\ \A i \in 1 .. Len(read_jar[Self]) : read_jar[Self][i] # b.frame.seq
            /\ a.jar = Pushed(read_jar[Self], b.frame.seq)
        /\ \A w \in StepBC(Self, a, JarEnv(Self, Peer)) : w.jar = a.jar

\* Witness: the jar is full and a Data frame with a seq it does not hold is
\* received, so that the oldest entry is evicted
C26_Witness ==
    /\ Len(read_jar[Self]) = SOCKET_JAR_CAPACITY
    /\ \E b \in TypeHeard(Self, JarEnv(Self, Peer), "Data") : \E a \in JarReceived(b) :
        /\ a.jar = Tail(read_jar[Self]) \o <<b.frame.seq>>
        /\ a.jar[1] = read_jar[Self][2]

(***************************************************************************)
(* Undecodable input (Spec).                                               *)
(***************************************************************************)
\* A received vector that holds no frame at all, such as the empty vector of a
\* trailing audio frame
EmptyBits == [frame |-> NoTask.frame, checksum |-> ChecksumMod]

\* Vectors that fail to decode: every frame Self can hear with its checksum
\* broken, and the empty vector
Undecodable == {Garble(b) : b \in Decoded} \cup {EmptyBits}

\* C27: a received bit vector that fails to decode is dropped silently: Step A
\* writes no response, forwards nothing, leaves the jar, the write timer and the
\* completions as they are, and the iteration goes on with Step B or Step C as if
\* nothing had been received.
C27_DecodeFailureDropped ==
    \A b \in Undecodable :
        /\ b.checksum # Checksum(b.frame)
        /\ Received(b) # {}
        /\ \A a \in Received(b) :
            /\ a.out = <<>>
            /\ a.rx = read_rx[Self]
            /\ a.fwd = fwd
            /\ a.jar = read_jar[Self]
            /\ a.ws = write_state[Self]
            /\ a.comp = completion
            /\ a.air = air
            /\ StepBC(Self, a, OpenEnv(Self, Peer)) # {}
            /\ StepBC(Self, a, OpenEnv(Self, Peer)) =
                {[w EXCEPT !.got = b] : w \in StepBC(Self, World(Self), OpenEnv(Self, Peer))}

\* Witness: the socket hears a vector that fails to decode while its timer waits
\* for an Ack and its jar holds a seq
C27_Witness ==
    /\ write_state[Self].kind = "Timeout"
    /\ read_jar[Self] # <<>>
    /\ \E b \in OpenEnv(Self, Peer).noise :
        /\ b \in Undecodable
        /\ b.frame.dest = Self
        /\ b.frame.type = "Data"
        /\ \E a \in Received(b) : a.ws = write_state[Self] /\ a.out = <<>>

(***************************************************************************)
(* SpecDropped: ping(Peer) on socket Self when station Peer is gone: nobody *)
(* answers, the channel is always sensed free, every timer runs out.  Each *)
(* ping that times out drops the receiver of its task's completion.        *)
(***************************************************************************)
NextDropped ==
    \/ socket_daemon(Self, SilentEnv)
    \/ ping_call(Self, Peer)
    \/ ping_send
    \/ ping_timeout

SpecDropped ==
    /\ Init
    /\ [][NextDropped]_vars
    /\ WF_vars(socket_daemon(Self, SilentEnv))
    /\ WF_vars(ping_send)
    /\ WF_vars(ping_timeout)

\* ping gave up waiting for task i: time::timeout dropped the completion receiver
ReceiverDropped(i) ==
    /\ i <= Len(app.ping.reports)
    /\ app.ping.reports[i] = "timeout"

\* Task i was sent to the daemon of socket s
Queued(s, i) == \E k \in 1 .. Len(enq[s]) : enq[s][k] = i

\* C28: when the caller of a write task has dropped its completion receiver the
\* daemon does not fail and goes on retrying the task it holds, and the tasks
\* queued later are eventually dequeued.
C28_DroppedReceiver ==
    /\ [](\A i \in TaskIds : ReceiverDropped(i) => life[Self].daemon = "running")
    /\ [](\A i \in TaskIds :
            ReceiverDropped(i) /\ Dequeued(Self, i) /\ completion[i].st = "pending" =>
                write_state[Self].has /\ write_state[Self].task.id = i)
    /\ \A i \in TaskIds : Queued(Self, i) ~> Dequeued(Self, i)

(***************************************************************************)
(* SpecEncode: AtherOutputStream::write of bit vectors of up to MaxWrite    *)
(* bits, more than two full chunks, into the loopback of the input stream. *)
(***************************************************************************)
\* The bit vectors written: 1, 0, 1, ... and 0, 1, 0, ... of every length
EncodeBits == {[i \in 1 .. k |-> (i + o) % 2] : k \in 0 .. MaxWrite, o \in 0 .. 1}

NextEncode ==
    \/ \E bits \in EncodeBits : loopback_write(bits)
    \/ poll_next
    \/ input_task_recv
    \/ decode_next

SpecEncode == Init /\ [][NextEncode]_vars

\* The j-th symbol of a run of symbols
Symbol(samples, j) == SubSeq(samples, (j - 1) * symbol_len + 1, j * symbol_len)

\* The bit a symbol stands for: 0, 1, or 2 if it is neither waveform
SymbolBit(sym) ==
    IF sym = Rep("s0", symbol_len) THEN 0 ELSE IF sym = Rep("s1", symbol_len) THEN 1 ELSE 2

\* The number a run of n symbols stands for, least significant bit first
RECURSIVE FieldValue(_, _)
FieldValue(samples, n) ==
    IF n = 0 THEN 0
    ELSE SymbolBit(Symbol(samples, n)) * 2 ^ (n - 1) + FieldValue(samples, n - 1)

\* The k-th run of at most PAYLOAD_LEN consecutive bits
Chunk(bits, k) ==
    SubSeq(bits, (k - 1) * PAYLOAD_LEN + 1, Min(k * PAYLOAD_LEN, Len(bits)))

\* frame is an audio frame for chunk: the preamble, a length field of LENGTH_LEN
\* symbols that stands for the chunk's length, and one symbol per bit of the chunk
IsAudioFrame(frame, chunk) ==
    LET field == SubSeq(frame, preamble_len + 1, preamble_len + LENGTH_LEN * symbol_len)
        body == SubSeq(frame, preamble_len + LENGTH_LEN * symbol_len + 1, Len(frame))
    IN /\ Len(frame) = (PREAMBLE_LEN + LENGTH_LEN + Len(chunk)) * symbol_len
       /\ SubSeq(frame, 1, preamble_len) = Rep("p", preamble_len)
       /\ \A j \in 1 .. LENGTH_LEN : SymbolBit(Symbol(field, j)) \in Bit
       /\ FieldValue(field, LENGTH_LEN) = Len(chunk)
       /\ \A j \in 1 .. Len(chunk) : SymbolBit(Symbol(body, j)) = chunk[j]

\* The frames write(bits) puts after the warmup are the ones the statement names
FramesOf(bits) ==
    LET frames == ather_encode_packet(bits)
        n == Len(bits)
    IN /\ Len(frames) = n \div PAYLOAD_LEN + 1
       /\ \A k \in 1 .. Len(frames) : IsAudioFrame(frames[k], Chunk(bits, k))
       /\ \A k \in 1 .. (Len(frames) - 1) : Len(Chunk(bits, k)) = PAYLOAD_LEN
       /\ Chunk(bits, Len(frames)) = <<>> <=> n % PAYLOAD_LEN = 0
       /\ concat([k \in 1 .. Len(frames) |-> Chunk(bits, k)]) = bits

\* The track begins with one warmup frame, and the audio frames follow it
TrackOf(track, bits) ==
    /\ SubSeq(track, 1, Len(create_warmup)) = create_warmup
    /\ SubSeq(track, 1, WARMUP_LEN * symbol_len) = Rep("w", WARMUP_LEN * symbol_len)
    /\ \A j \in (WARMUP_LEN * symbol_len + 1) .. Len(track) : track[j] # "w"
    /\ split_off(track, Len(create_warmup)) = concat(ather_encode_packet(bits))

\* C29: write(bits) emits one warmup frame, then one audio frame per consecutive
\* chunk of at most PAYLOAD_LEN bits, then one empty audio frame iff the length of
\* bits is a multiple of PAYLOAD_LEN (for empty bits: the warmup and one empty
\* frame); every audio frame carries a length field of exactly LENGTH_LEN symbols
\* that equals the length of its chunk.
C29_WriteFrames ==
    /\ [](\A i \in 1 .. Len(ather.sent) : FramesOf(ather.sent[i]))
    /\ [][Len(ather'.sent) > Len(ather.sent) =>
            /\ Len(ather'.track) >= Len(ather.track) + Len(create_warmup)
            /\ SubSeq(ather'.track, 1, Len(ather.track)) = ather.track
            /\ TrackOf(split_off(ather'.track, Len(ather.track)),
                       ather'.sent[Len(ather'.sent)])]_vars

\* Witness: a vector of two full chunks was written (three audio frames, the last
\* one empty), and the input stream has begun to decode the track
C29_Witness ==
    /\ ather.sent # <<>>
    /\ Len(ather.sent[1]) = 2 * PAYLOAD_LEN
    /\ Len(ather_encode_packet(ather.sent[1])) = 3
    /\ ather.worker = "decode"
    /\ ather.dec.phase # "preamble"

(***************************************************************************)
(* SpecSeq: write(dest, bits) for bits of up to MaxSeqBits bits, more than *)
(* the seq field counts, in a build with or without overflow checks.  No   *)
(* daemon runs: the calls get as far as their first await.                 *)
(***************************************************************************)
\* The bit vectors written: 1, 0, 1, ... and 0, 1, 0, ... of every length
SeqBits == {[i \in 1 .. k |-> (i + o) % 2] : k \in 0 .. MaxSeqBits, o \in 0 .. 1}

\* (1 << SEQ_BITS_LEN) - bits.len() on a word of WORD_BITS bits, where the build
\* does not trap the overflow of the subtraction
seq_range(bits) == (2 ^ SEQ_BITS_LEN - Len(bits)) % 2 ^ WORD_BITS

\* encode_packet panics: the subtraction overflows in a build that traps it, or
\* gen_range is given an empty range
gen_range_panics(bits, build) ==
    \/ build = "debug" /\ Len(bits) > 2 ^ SEQ_BITS_LEN
    \/ seq_range(bits) = 0

\* The bases rng.gen_range(0..range) can draw when it does not panic
gen_range(bits) == 0 .. (seq_range(bits) - 1)

\* write(dest, bits) up to its first await, for bits of any length
WriteAny(c, s, dest, bits) ==
    /\ wr[c].st = "idle"
    /\ life[s].writer
    /\ \A b \in 1 .. (c - 1) : wr[b].st # "idle"
    /\ dest # s
    /\ IF gen_range_panics(bits, life[s].build)
       THEN /\ wr' = [wr EXCEPT ![c] = [bits |-> bits, dest |-> dest, base |-> 0,
                                        st |-> "panicked", sock |-> s, idx |-> 0]]
            /\ UNCHANGED <<write_rx, enq>>
       ELSE \E base \in gen_range(bits) :
            LET frames == encode_packet(bits, s, dest, base, TaskId(c, 1))
                call == [bits |-> bits, dest |-> dest, base |-> base, st |-> "wait",
                         sock |-> s, idx |-> 1]
            IN IF Len(frames) = 0
               THEN /\ base = 0
                    /\ wr' = [wr EXCEPT ![c] = [call EXCEPT !.st = "ok", !.idx = 0]]
                    /\ UNCHANGED <<write_rx, enq>>
               ELSE /\ wr' = [wr EXCEPT ![c] = call]
                    /\ write_rx' = [write_rx EXCEPT ![s] =
                            Append(write_rx[s], [frame |-> frames[1], id |-> TaskId(c, 1)])]
                    /\ enq' = [enq EXCEPT ![s] = Append(enq[s], TaskId(c, 1))]
    /\ UNCHANGED <<write_state, read_jar, read_rx, air, completion, rd,
                   tx, fwd, deq, seen, life, ather, app>>

NextSeq == \E c \in Calls, bits \in SeqBits : WriteAny(c, Self, Peer, bits)

SpecSeq == InitBusy /\ [][NextSeq]_vars

\* C30: for every write(dest, bits) the base is drawn, whatever the length of bits,
\* and every frame's seq is base + i and lies within 0 .. 2^SEQ_BITS_LEN - 1.
C30_SeqRange ==
    \A c \in Calls :
        wr[c].st # "idle" =>
            /\ wr[c].st # "panicked"
            /\ \A i \in 1 .. Len(CallFrames(c)) :
                /\ CallFrames(c)[i].seq = wr[c].base + i - 1
                /\ CallFrames(c)[i].seq >= 0
                /\ CallFrames(c)[i].seq < 2 ^ SEQ_BITS_LEN

(***************************************************************************)
(* Delivery, suspend and resume of the ather input stream (SpecStream).    *)
(***************************************************************************)
\* The task state holds a result: Completed(bits) or Suspended(Some(bits))
Holds(t) == t.kind = "Completed" \/ (t.kind = "Suspended" /\ t.has)

\* The most results one written vector is decoded to
MaxGot == MaxBits \div PAYLOAD_LEN + 1

\* The chunks of the vectors written so far, in the order they were played
Played == concat([i \in 1 .. Len(ather.sent) |->
                    [k \in 1 .. (Len(ather.sent[i]) \div PAYLOAD_LEN + 1) |->
                        Chunk(ather.sent[i], k)]])

\* got is made of entries of seq, in the order of seq, each taken at most once
RECURSIVE InOrder(_, _)
InOrder(got, seq) ==
    IF got = <<>> THEN TRUE
    ELSE IF seq = <<>> THEN FALSE
    ELSE IF Head(got) = Head(seq) THEN InOrder(Tail(got), Tail(seq))
    ELSE InOrder(got, Tail(seq))

\* C31: whatever poll_next, suspend and resume do in between, a bit vector the
\* input task has stored as Completed stays in the task state unchanged, as
\* Completed or as Suspended(Some), until one poll_next returns it and takes it
\* out of the state; a poll_next returns Some only of the stored vector; the
\* vectors come out in the order they were decoded; and every stored vector is
\* returned by a later poll_next, suspended or not.
C31_StreamDelivery ==
    /\ [][/\ (Holds(ather.task) /\ Holds(ather'.task))
              => (ather'.task.bits = ather.task.bits /\ ather'.got = ather.got)
          /\ (Holds(ather.task) /\ ~Holds(ather'.task))
              => (/\ ather'.got = Append(ather.got, ather.task.bits)
                  /\ ather'.polled = "Some"
                  /\ ather'.item = ather.task.bits
                  /\ ather'.cmds = ather.cmds)
          /\ (ather'.got # ather.got)
              => (Holds(ather.task) /\ ~Holds(ather'.task))
          /\ (~Holds(ather.task) /\ Holds(ather'.task))
              => (/\ ather.task.kind = "Running"
                  /\ ather'.task.kind = "Completed"
                  /\ ather.worker = "decode" \/ Head(ather.cmds) = "Running"
                  /\ ather'.woken)]_vars
    /\ [](InOrder(ather.got, Played))
    /\ \A n \in 0 .. MaxGot :
            (Holds(ather.task) /\ Len(ather.got) = n) ~> (Len(ather.got) = n + 1)

\* Witness: one vector has been returned, the next one was stored as Completed and
\* a suspend processed after that has buffered it in Suspended(Some)
C31_Witness ==
    /\ Len(ather.got) = 1
    /\ ather.task.kind = "Suspended"
    /\ ather.task.has
    /\ ather.paused

\* The input task takes the command cmd off its channel in this step
Processes(cmd) ==
    /\ ather.worker = "recv"
    /\ ather.cmds # <<>>
    /\ Head(ather.cmds) = cmd
    /\ ather'.cmds = Tail(ather.cmds)

\* A Running command is sent in this step
SendsRunning ==
    /\ Len(ather'.cmds) = Len(ather.cmds) + 1
    /\ ather'.cmds[Len(ather'.cmds)] = "Running"

\* C32: when the input task has processed a suspend command the task state is
\* Suspended, whichever of Pending, Running and Completed it was before, and a
\* Completed result is buffered in it; while the state is Suspended poll_next
\* returns the buffered result once, then end of stream, and sends no Running
\* command; when a resume command is processed in state Suspended the state
\* becomes Completed with the buffered result, or Pending.
C32_SuspendResume ==
    /\ [][Processes("Suspended")
            => /\ ather'.task.kind = "Suspended"
               /\ ather'.paused
               /\ ather.task.kind = "Completed"
                    => (ather'.task.has /\ ather'.task.bits = ather.task.bits)]_vars
    /\ [][ather.task.kind = "Suspended" => ~SendsRunning]_vars
    /\ [][ather.task.kind = "Suspended" /\ ather'.polled # ather.polled
            => IF ather.task.has
               THEN /\ ather'.polled = "Some"
                    /\ ather'.item = ather.task.bits
                    /\ ather'.task = TaskState("Suspended", FALSE, <<>>)
               ELSE ather'.polled = "None" /\ ather'.task = ather.task]_vars
    /\ [][Processes("Resume") /\ ather.task.kind = "Suspended"
            => /\ ~ather'.paused
               /\ ather'.task = IF ather.task.has
                                 THEN TaskState("Completed", FALSE, ather.task.bits)
                                 ELSE TaskState("Pending", FALSE, <<>>)]_vars

\* The Running commands that are queued or being executed by the input task
RunningCommands ==
    Len(SelectSeq(ather.cmds, LAMBDA cmd : cmd = "Running"))
        + (IF ather.worker = "decode" THEN 1 ELSE 0)

\* C33: at most one Running command is queued or being executed at any time;
\* poll_next sends a Running command only in state Pending, and a poll in state
\* Running leaves the state Running and sends nothing.
C33_OneRunningCommand ==
    /\ [](RunningCommands <= 1)
    /\ [][SendsRunning => ather.task.kind = "Pending" /\ ather'.task.kind = "Running"]_vars
    /\ [][ather.task.kind = "Running" /\ ather'.cmds = ather.cmds /\ ather'.worker = ather.worker
            /\ ather'.track = ather.track /\ ather'.source = ather.source
            => ather'.task.kind = "Running"]_vars

(***************************************************************************)
(* Completion of write tasks (SpecWrite).                                  *)
(***************************************************************************)
\* The completion channel of task id has been sent a result
Signalled(comp, id) == comp[id].st \in {"Ok", "LinkError"}

\* Every Ack and MacPingResp a decoder can yield
Responses ==
    {ToBits(AckFrame_new(dest, src, seq)) : dest \in Dest, src \in Addr, seq \in SeqSpace}
    \cup {ToBits(MacPingRespFrame_new(dest, src)) : dest \in Dest, src \in Addr}

\* The write timer of socket Self, and the same timer holding a ping of the task
PendingTimers ==
    LET timer == write_state[Self]
    IN {timer} \cup
       (IF timer.has
        THEN {[timer EXCEPT !.task.frame = MacPingReqFrame_new(Peer, Self, timer.task.id)]}
        ELSE {})

\* The response answers the task the timer holds: same type family, same seq
Answers(b, timer) ==
    /\ timer.has
    /\ b.frame.seq = timer.task.frame.seq
    /\ \/ timer.task.frame.type = "Data" /\ b.frame.type = "Ack"
       \/ timer.task.frame.type = "MacPingReq" /\ b.frame.type = "MacPingResp"

\* C34: a write task's completion channel is signalled at most once; in the step
\* that signals it the task leaves the write timer, the timer never holds a task
\* that is not pending, and every task frame an iteration transmits belongs to the
\* pending task the iteration leaves in the timer, so a completed task is not
\* transmitted again; an Ack or MacPingResp that does not answer the timer's task
\* by type family and seq, or that arrives while the timer holds no task, leaves
\* the timer and every completion channel as they were.
C34_CompletionOnce ==
    /\ [][\A id \in TaskIds :
            /\ completion[id].st # "pending" => completion'[id] = completion[id]
            /\ (~Signalled(completion, id) /\ Signalled(completion', id))
                => /\ write_state[Self].has
                   /\ write_state[Self].task.id = id
                   /\ ~write_state'[Self].has]_vars
    /\ [](write_state[Self].has => completion[write_state[Self].task.id].st = "pending")
    /\ [](\A w \in Iterations(Self, WriteEnv(Self, Peer)) :
            \A k \in 1 .. Len(TaskOut(w)) :
                /\ w.ws.has
                /\ TaskOut(w)[k].bits = ToBits(w.ws.task.frame)
                /\ ~Signalled(w.comp, w.ws.task.id)
                /\ ~Signalled(completion, w.ws.task.id))
    /\ [](\A b \in Responses : \A timer \in PendingTimers :
            LET w == [World(Self) EXCEPT !.ws = timer]
            IN ~Answers(b, timer) =>
                \A a \in Receive(Self, w, b, AckEnv) :
                    /\ a.ws = timer
                    /\ a.comp = completion
                    /\ a.out = <<>>)

\* Witness: the first task was completed with Ok after its frame was transmitted,
\* and the timer holds the next task, transmitted and pending, while Acks of
\* other seqs and MacPingResps can arrive
C34_Witness ==
    /\ completion[1].st = "Ok"
    /\ tx[1] >= 1
    /\ write_state[Self].has
    /\ write_state[Self].task.id = 2
    /\ tx[2] >= 1
    /\ \E b \in Responses :
            /\ is_for_self(Self, b.frame)
            /\ ~Answers(b, write_state[Self])
            /\ Receive(Self, World(Self), b, AckEnv) # {}

(***************************************************************************)
(* SpecConsume: read calls on socket Self, one after the other, while      *)
(* station Peer sends Data frames of several seqs, two payloads under one  *)
(* seq, one frame with EOP, and pings.  Self writes on a channel that is   *)
(* busy at times, in a build with overflow checks, so the daemon can end   *)
(* and close the reader channel.                                           *)
(***************************************************************************)
ConsumeFrames ==
    {DataFrame_new(Self, Peer, 0, 0, <<payload>>, 0) : payload \in Bit}
    \cup {DataFrame_new(Self, Peer, seq, 0, <<1>>, 0) : seq \in 1 .. SOCKET_JAR_CAPACITY}
    \cup {DataFrame_new(Self, Peer, 2 ^ SEQ_BITS_LEN - 1, 1, <<0>>, 0)}
    \cup {MacPingReqFrame_new(Self, Peer, 0)}

ConsumeEnv == [BusyEnv EXCEPT !.draws = 0, !.noise = {ToBits(f) : f \in ConsumeFrames}]

InitConsume == InitBusy /\ life[Self].build = "debug"

NextConsume ==
    \/ socket_daemon(Self, ConsumeEnv)
    \/ WriteCall(1, Self, Peer, <<1>>, 0)
    \/ \E src \in Addr : ReadCall(Self, src)
    \/ ReadStep(Self)
    \/ ReadEof(Self)
    \/ ReadReturn(Self)

SpecConsume == InitConsume /\ [][NextConsume]_vars

\* read takes the frame at the head of the reader channel in this step
Takes ==
    /\ rd[Self].st = "reading"
    /\ read_rx[Self] # <<>>
    /\ read_rx'[Self] = Tail(read_rx[Self])

\* The payloads of a bucket in ascending order of their seqs, joined
RECURSIVE Joined(_, _)
Joined(bucket, seqs) ==
    IF seqs = {} THEN <<>>
    ELSE LET q == CHOOSE m \in seqs : \A n \in seqs : m <= n
         IN bucket[q] \o Joined(bucket, seqs \ {q})

\* C35: read(src) removes from the reader channel every frame it takes and puts
\* nothing back, so no later read call meets it; a frame of another source and a
\* frame that is not Data change nothing in the call; a Data frame of src is filed
\* under its seq unless the bucket holds that seq already, in which case the first
\* payload stays; the call returns at an EOP frame of src or when the channel is
\* empty and closed, in both cases with the payloads of its bucket in seq order.
C35_ReadConsumes ==
    /\ [][rd'[Self] # rd[Self] /\ read_rx'[Self] # read_rx[Self] => Takes]_vars
    /\ [][Takes =>
            LET frame == Head(read_rx[Self])
                bucket == rd[Self].bucket
            IN IF frame.src # rd[Self].src \/ frame.type # "Data"
               THEN rd'[Self] = rd[Self]
               ELSE /\ DOMAIN rd'[Self].bucket = DOMAIN bucket \cup {frame.seq}
                    /\ \A q \in DOMAIN bucket : rd'[Self].bucket[q] = bucket[q]
                    /\ frame.seq \notin DOMAIN bucket
                        => rd'[Self].bucket[frame.seq] = frame.payload
                    /\ rd'[Self].st = IF frame.flag = 1 THEN "done" ELSE "reading"]_vars
    /\ [][rd[Self].st = "reading" /\ rd'[Self].st = "done" /\ ~Takes
            => /\ read_rx[Self] = <<>>
               /\ life[Self].daemon # "running"
               /\ rd'[Self].bucket = rd[Self].bucket
               /\ UNCHANGED read_rx]_vars
    /\ [](rd[Self].st = "done"
            => rd[Self].result = Joined(rd[Self].bucket, DOMAIN rd[Self].bucket))

\* Witness: the daemon has ended and the channel is drained; a read of Peer has
\* returned without an EOP frame, with the payloads of three seqs
C35_Witness ==
    /\ rd[Self].st = "done"
    /\ rd[Self].src = Peer
    /\ life[Self].daemon # "running"
    /\ read_rx[Self] = <<>>
    /\ DOMAIN rd[Self].bucket = 0 .. SOCKET_JAR_CAPACITY
    /\ rd[Self].result = <<0, 1, 1>>

====
